---- MODULE Spec2Model ----
(***************************************************************************)
(* The workflow orchestration engine of avenantp/watcher: the step table   *)
(* and prerequisite checker (src/types/workflow.ts), the workflow store    *)
(* operations (services/workflow.ts) and the HTTP handlers that drive a    *)
(* step execution (routes/workflow.ts).                                    *)
(*                                                                         *)
(* Every await of a handler is an atomic step of its own: the position of  *)
(* each handler is kept in reqs[p].pc, so the states between two store     *)
(* writes of one operation are states of the model.                        *)
(***************************************************************************)
EXTENDS Integers, Sequences, FiniteSets, TLC

VARIABLES
    workflows,  \* the `workflows` table: id -> row (NoWorkflow: no such row)
    logs,       \* the `workflow_logs` table, oldest row first (its newest MaxLog rows)
    clock,      \* the latest time a handler has read with new Date() and stored
    reqs,       \* the handler invocations in flight: slot -> position and locals
    used,       \* the number of departures from the plain run so far
    budget,     \* the number of departures a behaviour may make
    tempDirs    \* the workflows whose temporary directory exists on disk

vars == <<workflows, logs, clock, reqs, used, budget, tempDirs>>

(***************************************************************************)
(* Bounds of the model.                                                    *)
(***************************************************************************)
\* step numbers a caller may send lie ExtraSteps beyond the valid range on each side
ExtraSteps == 1
\* rows of workflow_logs the model keeps (the newest ones)
MaxLog == 2
\* the times the wall clock goes through
MaxTime == 2
\* the pieces of a videoSource string a create request may send
MaxText == 2
\* the steps a caller executes where the store holds two workflows: 1..MaxStepTwo
MaxStepTwo == 2
\* the steps two callers at once execute: the MaxConcurrent steps that follow step 3
MaxConcurrent == 2
\* The plain run of the pipeline is a create request followed by execute requests
\* without force whose external services succeed.  MaxDeviations bounds the departures
\* from it in one behaviour: execute requests with force = true, start requests, pause
\* requests, delete requests, requests that arrive while another is in flight,
\* failures of an external service, failures of a store operation
MaxDeviations == 1

(***************************************************************************)
(* Types (src/types/workflow.ts).                                          *)
(***************************************************************************)
NumSteps == 7
Steps == 1..NumSteps
StepInputs == (1 - ExtraSteps)..(NumSteps + ExtraSteps)

StepStatus == {"pending", "in_progress", "completed", "error", "skipped"}
WorkflowStatus == {"created", "in_progress", "paused", "completed", "error"}

Null == "<null>"

\* String(step): the key of a step in stepStatuses
StepKey(step) == ToString(step)
StepKeys == {StepKey(s) : s \in Steps}
\* `step${step}Output`
OutputKey(step) == "step" \o ToString(step) \o "Output"

\* new Date().toISOString() read at time `now`
Timestamp(now) == "t" \o ToString(now)
\* the times a read of the wall clock may return: the clock never runs backwards,
\* and it is at most one tick further at each read
Times == {t \in {clock, clock + 1} : t <= MaxTime}

Ids == {"w1"}
Procs == {1, 2}
VideoSources == {"a.mp4"}

\* The text of a string a request body carries is kept as the sequence of its pieces:
\* a piece is one whitespace character (Blank) or a run of other characters
Blank == " "
NonBlankPieces == {"a.mp4"}
\* the texts of at most MaxText pieces
Texts == UNION {[1..n -> {Blank} \cup NonBlankPieces] : n \in 0..MaxText}

\* String.prototype.trim: the whitespace at both ends is removed
RECURSIVE TrimStart(_)
TrimStart(text) ==
    IF text # << >> /\ Head(text) = Blank THEN TrimStart(Tail(text)) ELSE text
RECURSIVE TrimEnd(_)
TrimEnd(text) ==
    IF text # << >> /\ text[Len(text)] = Blank
    THEN TrimEnd(SubSeq(text, 1, Len(text) - 1))
    ELSE text
Trim(text) == TrimEnd(TrimStart(text))

\* the string a text spells
RECURSIVE Join(_)
Join(text) == IF text = << >> THEN "" ELSE Head(text) \o Join(Tail(text))

\* the values req.body.videoSource may have: undefined, a value that is not a
\* string, a string
Undefined == [type |-> "undefined"]
NotAString == [type |-> "number"]
String(text) == [type |-> "string", text |-> text]
\* !value: undefined and the empty string are falsy, the number sent is not
Falsy(value) == value.type = "undefined" \/ (value.type = "string" /\ value.text = << >>)
\* what executeStepN returns
Payload(step) == "output of step " \o ToString(step)
\* what executeStepN returns when a later run of it produces something else
FreshPayload(step) == "new output of step " \o ToString(step)
\* what a failing external service may throw
ExternalFailure == "external service failed"

(***************************************************************************)
(* Step definitions and the prerequisite checker.                          *)
(***************************************************************************)
\* STEP_DEFINITIONS: step -> prerequisites, in the order the table lists them
STEP_DEFINITIONS ==
    [s \in Steps |->
        CASE s = 1 -> << >>
          [] s = 2 -> <<1>>
          [] s = 3 -> <<2>>
          [] s = 4 -> <<3>>
          [] s = 5 -> <<3>>
          [] s = 6 -> <<3, 4>>
          [] s = 7 -> <<3>>]

\* STEP_DEFINITIONS.find((d) => d.step === step) !== undefined
HasDefinition(step) == step \in DOMAIN STEP_DEFINITIONS

\* whether canExecuteStep's filter keeps a prerequisite: its status is not completed
Unsatisfied_SkippedCounts(wf, prereq) ==
    wf.stepStatuses[StepKey(prereq)] \notin {"completed", "skipped"}
Unsatisfied(wf, prereq) == wf.stepStatuses[StepKey(prereq)] # "completed"

\* definition.prerequisites.filter(...): Array.prototype.filter keeps the order
MissingPrerequisites_FirstOnly(wf, step) ==
    LET Keep(prereq) == Unsatisfied(wf, prereq)
        all == SelectSeq(STEP_DEFINITIONS[step], Keep)
    IN  IF all = << >> THEN all ELSE <<Head(all)>>
MissingPrerequisites(wf, step) ==
    LET Keep(prereq) == Unsatisfied(wf, prereq)
    IN  SelectSeq(STEP_DEFINITIONS[step], Keep)

canExecuteStep_UndefinedIsFree(wf, step) ==
    IF ~HasDefinition(step)
    THEN [canExecute |-> TRUE, missingPrerequisites |-> << >>]
    ELSE LET missing == MissingPrerequisites(wf, step)
         IN  [canExecute |-> Len(missing) = 0, missingPrerequisites |-> missing]
canExecuteStep(wf, step) ==
    IF ~HasDefinition(step)
    THEN [canExecute |-> FALSE, missingPrerequisites |-> << >>]
    ELSE LET missing == MissingPrerequisites(wf, step)
         IN  [canExecute |-> Len(missing) = 0, missingPrerequisites |-> missing]

\* checkStepPrerequisites spreads canExecuteStep's result (stepName is not modelled)
checkStepPrerequisites(wf, step) == canExecuteStep(wf, step)

(***************************************************************************)
(* The workflow store (services/workflow.ts).  A row is kept in the        *)
(* Workflow shape: workflowRowToWorkflow and updateWorkflow rename the     *)
(* fields one to one between camelCase and the snake_case columns.         *)
(***************************************************************************)
NoWorkflow == [exists |-> FALSE]

OutputKeys == {OutputKey(s) : s \in Steps}

WorkflowFields ==
    {"exists", "id", "videoSource", "videoPath", "videoName", "status", "currentStep",
     "errorMessage", "stepStatuses", "startedAt", "completedAt"} \cup OutputKeys

\* current_step of a freshly inserted row (column default of the workflows table)
DefaultCurrentStep == 0

\* the row the insert of createWorkflow produces: every column the insert does
\* not name takes the default of the workflows table
InsertedRow_FirstStepRunning(id, videoSource) ==
    [f \in WorkflowFields |->
        CASE f = "exists" -> TRUE
          [] f = "id" -> id
          [] f = "videoSource" -> videoSource
          [] f = "status" -> "in_progress"
          [] f = "currentStep" -> 1
          [] f = "stepStatuses" ->
                [k \in StepKeys |-> IF k = StepKey(1) THEN "in_progress" ELSE "pending"]
          [] OTHER -> Null]
InsertedRow(id, videoSource) ==
    [f \in WorkflowFields |->
        CASE f = "exists" -> TRUE
          [] f = "id" -> id
          [] f = "videoSource" -> videoSource
          [] f = "status" -> "created"
          [] f = "currentStep" -> DefaultCurrentStep
          [] f = "stepStatuses" -> [k \in StepKeys |-> "pending"]
          [] OTHER -> Null]

\* getWorkflow: the row, or NoWorkflow (null) when there is none
getWorkflow(id) == workflows[id]

\* the row updateWorkflow leaves: only the fields present in `updates` change
UpdatedRow_KeepsOutputs(row, updates) ==
    [f \in DOMAIN row |->
        IF f \in DOMAIN updates /\ ~(f \in OutputKeys /\ row[f] # Null)
        THEN updates[f] ELSE row[f]]
UpdatedRow(row, updates) ==
    [f \in DOMAIN row |-> IF f \in DOMAIN updates THEN updates[f] ELSE row[f]]

\* the table after updateWorkflow(id, updates)
updateWorkflow(id, updates) ==
    [workflows EXCEPT ![id] = UpdatedRow(workflows[id], updates)]

\* obj[key] = value on a copy of a JavaScript object: the key is added when the
\* object does not have it
SetKey(obj, key, value) ==
    [k \in DOMAIN obj \cup {key} |-> IF k = key THEN value ELSE obj[k]]

\* updateStepStatus, after its getWorkflow returned `row`: the updates it writes
StepStatusUpdates_RollsBack(row, step, status) ==
    [stepStatuses |->
        IF status = "error"
        THEN [k \in DOMAIN row.stepStatuses \cup {StepKey(step)} |->
                IF k = StepKey(step) THEN status ELSE "pending"]
        ELSE SetKey(row.stepStatuses, StepKey(step), status),
     currentStep  |-> IF status = "in_progress" THEN step ELSE row.currentStep]
StepStatusUpdates_KeepsCurrentStep(row, step, status) ==
    [stepStatuses |-> SetKey(row.stepStatuses, StepKey(step), status),
     currentStep  |-> row.currentStep]
StepStatusUpdates_Rereads(row, step, status) ==
    [stepStatuses |-> SetKey(workflows[row.id].stepStatuses, StepKey(step), status),
     currentStep  |-> IF status = "in_progress" THEN step ELSE workflows[row.id].currentStep]
StepStatusUpdates_SetsWorkflowStatus(row, step, status) ==
    IF status = "in_progress"
    THEN [stepStatuses |-> SetKey(row.stepStatuses, StepKey(step), status),
          currentStep  |-> step,
          status       |-> "in_progress"]
    ELSE [stepStatuses |-> SetKey(row.stepStatuses, StepKey(step), status),
          currentStep  |-> row.currentStep]
StepStatusUpdates_WritesOutputsBack(row, step, status) ==
    [f \in {"stepStatuses", "currentStep"} \cup OutputKeys |->
        CASE f = "stepStatuses" -> SetKey(row.stepStatuses, StepKey(step), status)
          [] f = "currentStep" -> IF status = "in_progress" THEN step ELSE row.currentStep
          [] OTHER -> row[f]]
StepStatusUpdates(row, step, status) ==
    [stepStatuses |-> SetKey(row.stepStatuses, StepKey(step), status),
     currentStep  |-> IF status = "in_progress" THEN step ELSE row.currentStep]

\* the last n elements of a sequence
LastN(seq, n) ==
    IF Len(seq) <= n THEN seq ELSE SubSeq(seq, Len(seq) - n + 1, Len(seq))

\* a row of workflow_logs (id, metadata and created_at are not modelled)
LogRow(workflowId, step, status, message) ==
    [workflowId |-> workflowId, step |-> step, status |-> status, message |-> message]

\* the table after the insert of logWorkflowProgress; the model keeps the newest
\* MaxLog rows of it
LogInserted_ReplacesLast(row) ==
    IF logs = << >> THEN <<row>> ELSE [logs EXCEPT ![Len(logs)] = row]
LogInserted(row) == LastN(Append(logs, row), MaxLog)

\* Object.values(workflow.stepStatuses).every(completed or skipped)
allComplete_AnyCompleted(wf) ==
    \E k \in DOMAIN wf.stepStatuses : wf.stepStatuses[k] \in {"completed", "skipped"}
allComplete(wf) ==
    \A k \in DOMAIN wf.stepStatuses : wf.stepStatuses[k] \in {"completed", "skipped"}

(***************************************************************************)
(* The collaborators (executeStep1 .. executeStep7 of routes/workflow.ts): *)
(* each checks the fields it needs in the workflow object it was handed    *)
(* and throws before any external call when one is absent.                 *)
(***************************************************************************)
Absent(v) == v = Null

InputsMissing_ChecksNothing(wf, step) == FALSE
InputsMissing(wf, step) ==
    CASE step = 1 -> FALSE
      [] step = 2 -> Absent(wf.videoPath)
      [] step = 3 -> Absent(wf.step2Output)
      [] step = 4 -> Absent(wf.step3Output) \/ Absent(wf.videoPath) \/ Absent(wf.videoName)
      [] step = 5 -> Absent(wf.step2Output) \/ Absent(wf.videoName)
      [] step = 6 -> Absent(wf.step3Output) \/ Absent(wf.step4Output) \/ Absent(wf.videoName)
      [] step = 7 -> Absent(wf.step3Output) \/ Absent(wf.videoName)

InputsMissingMessage(step) ==
    CASE step = 2 -> "No video path available. Run step 1 first."
      [] step = 3 -> "No transcript available. Run step 2 first."
      [] step = 4 -> "Missing prerequisites. Run steps 1-3 first."
      [] step = 5 -> "Missing prerequisites. Run steps 1-2 first."
      [] step = 6 -> "Missing prerequisites. Run steps 1-4 first."
      [] step = 7 -> "Missing prerequisites. Run steps 1-3 first."
      [] OTHER -> Null

\* what executeStep1 resolves the source to
ResolvedVideoPath(videoSource) == "/videos/" \o videoSource
ResolvedVideoName(videoSource) == "name:" \o videoSource

(***************************************************************************)
(* Handler invocations.  reqs[p] holds the position (pc) and the locals of *)
(* the handler running in slot p, and in `hist` what the invocation has    *)
(* done so far: the tables as they were when it was called, the number of  *)
(* store reads and writes it has issued, whether it dispatched to a        *)
(* collaborator.                                                           *)
(***************************************************************************)
NoResponse == [kind |-> Null]
NoHist == [reads |-> 0]

IdleReq ==
    [pc |-> "idle", op |-> Null, id |-> Null, step |-> 0, force |-> FALSE,
     fromStep |-> << >>, videoSource |-> Undefined, workflow |-> NoWorkflow, rmw |-> NoWorkflow, mark |-> Null,
     stepOutput |-> Null, message |-> Null, resp |-> NoResponse, hist |-> NoHist]

NewReq(op, id, step, force) ==
    [IdleReq EXCEPT !.op = op, !.id = id, !.step = step, !.force = force,
                    !.hist = [workflows |-> workflows, logs |-> logs,
                              reads |-> 0, writes |-> 0, dispatched |-> FALSE,
                              logsLost |-> 0, tempDir |-> "none"]]

\* res.status(code).json(body)
Response(kind, code, body) == [kind |-> kind, code |-> code, body |-> body]

\* an error response and its body
Reject(kind, code, error) == Response(kind, code, [error |-> error])

\* the 400 of lines 159-162
PrerequisiteError(step, missing) ==
    Response("PrerequisiteError", 400,
             [error |-> "Cannot execute step " \o ToString(step) \o ": missing prerequisites",
              missingPrerequisites |-> missing])

\* the 400 of line 169
AlreadyCompleted ==
    Reject("AlreadyCompleted", 400, "Step already completed. Use force=true to re-run.")

\* the 200 of lines 221-225
Success(workflow, stepOutput) ==
    Response("ok", 200, [success |-> TRUE, workflow |-> workflow, stepOutput |-> stepOutput])

\* the 500 of lines 232-235
ExecutionError(message) ==
    Response("ExecutionError", 500, [success |-> FALSE, error |-> message])

Responded(r, resp) == [r EXCEPT !.pc = "done", !.resp = resp]
DidRead(r) == [r EXCEPT !.hist.reads = @ + 1]
DidWrite(r) == [r EXCEPT !.hist.writes = @ + 1]

Quiet == \A q \in Procs : reqs[q].pc = "idle"

\* the handler returned: its slot is free again
Return(p) ==
    /\ reqs[p].pc = "done"
    /\ reqs' = [reqs EXCEPT ![p] = IdleReq]
    /\ UNCHANGED <<tempDirs, budget, workflows, logs, clock, used>>

(***************************************************************************)
(* POST /:id/steps/:step/execute                                           *)
(***************************************************************************)
\* the step-number validation of the execute route (lines 143-148)
InvalidStep(step) == step < 1 \/ step > NumSteps

\* the gate of lines 158 and 168: the rejection, or NoResponse when the request passes
ExecuteGate_ForceSkipsNothing(wf, step, force) ==
    LET prereqCheck == checkStepPrerequisites(wf, step)
        currentStatus == wf.stepStatuses[StepKey(step)]
    IN  IF ~prereqCheck.canExecute
        THEN PrerequisiteError(step, prereqCheck.missingPrerequisites)
        ELSE IF currentStatus = "completed"
        THEN AlreadyCompleted
        ELSE NoResponse
ExecuteGate_NoCompletedCheck(wf, step, force) ==
    LET prereqCheck == checkStepPrerequisites(wf, step)
    IN  IF ~prereqCheck.canExecute /\ ~force
        THEN PrerequisiteError(step, prereqCheck.missingPrerequisites)
        ELSE NoResponse
ExecuteGate_NoPrerequisiteCheck(wf, step, force) ==
    LET currentStatus == wf.stepStatuses[StepKey(step)]
    IN  IF currentStatus = "completed" /\ ~force
        THEN AlreadyCompleted
        ELSE NoResponse
ExecuteGate_RejectsFailed(wf, step, force) ==
    LET prereqCheck == checkStepPrerequisites(wf, step)
        currentStatus == wf.stepStatuses[StepKey(step)]
    IN  IF ~prereqCheck.canExecute /\ ~force
        THEN PrerequisiteError(step, prereqCheck.missingPrerequisites)
        ELSE IF currentStatus \in {"completed", "error"} /\ ~force
        THEN AlreadyCompleted
        ELSE NoResponse
ExecuteGate_PausedRejects(wf, step, force) ==
    LET prereqCheck == checkStepPrerequisites(wf, step)
        currentStatus == wf.stepStatuses[StepKey(step)]
    IN  IF wf.status = "paused"
        THEN Reject("WorkflowPaused", 409, "Workflow is paused")
        ELSE IF ~prereqCheck.canExecute /\ ~force
        THEN PrerequisiteError(step, prereqCheck.missingPrerequisites)
        ELSE IF currentStatus = "completed" /\ ~force
        THEN AlreadyCompleted
        ELSE NoResponse
ExecuteGate(wf, step, force) ==
    LET prereqCheck == checkStepPrerequisites(wf, step)
        currentStatus == wf.stepStatuses[StepKey(step)]
    IN  IF ~prereqCheck.canExecute /\ ~force
        THEN PrerequisiteError(step, prereqCheck.missingPrerequisites)
        ELSE IF currentStatus = "completed" /\ ~force
        THEN AlreadyCompleted
        ELSE NoResponse

\* lines 142-174, to the first await that touches the store after the request is
\* parsed: the step number is validated, getWorkflow returns `wf`, 404, the two
\* gates, then updateStepStatus is called and issues its own getWorkflow
ExecuteEntry_LoadsFirst(r, wf, step, force) ==
    IF ~wf.exists
    THEN Responded(DidRead(r), Reject("NotFound", 404, "Workflow not found"))
    ELSE IF InvalidStep(step)
    THEN Responded(DidRead(r), Reject("InvalidStep", 400, "Invalid step number (1-7)"))
    ELSE IF ExecuteGate(wf, step, force) # NoResponse
    THEN Responded([DidRead(r) EXCEPT !.workflow = wf], ExecuteGate(wf, step, force))
    ELSE [DidRead(r) EXCEPT !.workflow = wf, !.pc = "status_read", !.mark = "in_progress"]
ExecuteEntry(r, wf, step, force) ==
    IF InvalidStep(step)
    THEN Responded(r, Reject("InvalidStep", 400, "Invalid step number (1-7)"))
    ELSE IF ~wf.exists
    THEN Responded(DidRead(r), Reject("NotFound", 404, "Workflow not found"))
    ELSE IF ExecuteGate(wf, step, force) # NoResponse
    THEN Responded([DidRead(r) EXCEPT !.workflow = wf], ExecuteGate(wf, step, force))
    ELSE [DidRead(r) EXCEPT !.workflow = wf, !.pc = "status_read", !.mark = "in_progress"]

\* an execute request arrives in slot p; `departs` tells whether it is a departure
\* from the plain run
ExecuteArrives(p, id, step, force, departs) ==
    /\ reqs[p].pc = "idle"
    /\ departs => used < budget
    /\ used' = IF departs THEN used + 1 ELSE used
    /\ reqs' = [reqs EXCEPT ![p] =
            ExecuteEntry(NewReq("executeStep", id, step, force), getWorkflow(id), step, force)]
    /\ UNCHANGED <<tempDirs, budget, workflows, logs, clock>>

ExecuteStep(p, id, step, force) ==
    ExecuteArrives(p, id, step, force, force /\ ~InvalidStep(step))

\* an execute request without force that arrives while another handler is in flight
ExecuteStepMeanwhile(p, id, step) ==
    /\ ~Quiet
    /\ ExecuteArrives(p, id, step, FALSE, TRUE)

\* an exception no handler code catches: asyncHandler passes it to next()
Unhandled(r, error) == Responded(r, Reject("InternalError", 500, error))

\* the catch block of lines 226-227: remember the message, then updateStepStatus(error)
Caught_RespondsAtOnce(r, message) == Responded(r, ExecutionError(message))
Caught(r, message) == [r EXCEPT !.message = message, !.pc = "status_read", !.mark = "error"]

\* updateStepStatus, line 201: its getWorkflow returned.  'Workflow not found' is
\* thrown when there is no row: inside the try block (the completed mark) the
\* catch block takes it, elsewhere nothing does
UpdateStepStatusRead(p) ==
    /\ reqs[p].pc = "status_read"
    /\ LET r == DidRead(reqs[p])
           row == getWorkflow(r.id)
       IN  reqs' = [reqs EXCEPT ![p] =
                IF row.exists THEN [r EXCEPT !.rmw = row, !.pc = "status_write"]
                ELSE IF r.mark = "completed" THEN Caught(r, "Workflow not found")
                ELSE Unhandled(r, "Workflow not found")]
    /\ UNCHANGED <<tempDirs, budget, workflows, logs, clock, used>>

\* updateStepStatus, lines 206-212: write the status map read at line 201 back with
\* one entry changed; the handler keeps the returned row except in the catch block
UpdateStepStatusWrite(p) ==
    /\ reqs[p].pc = "status_write"
    /\ workflows[reqs[p].id].exists
    /\ LET r == DidWrite(reqs[p])
           table == updateWorkflow(r.id, StepStatusUpdates(r.rmw, r.step, r.mark))
       IN  /\ workflows' = table
           /\ reqs' = [reqs EXCEPT ![p] =
                [r EXCEPT !.pc = "log",
                          !.rmw = NoWorkflow,
                          !.workflow = IF r.mark = "error" THEN @ ELSE table[r.id]]]
    /\ UNCHANGED <<tempDirs, budget, logs, clock, used>>

\* the message of the progress-log entry of lines 175, 211 and 229
ProgressMessage(r) ==
    CASE r.mark = "in_progress" -> "Starting step " \o ToString(r.step)
      [] r.mark = "completed" -> "Step " \o ToString(r.step) \o " completed"
      [] r.mark = "error" -> r.message

\* the synchronous code after logWorkflowProgress returned at lines 175, 211 and
\* 229: the allComplete test of lines 214-217 follows the completed entry
AfterLog(r) ==
    CASE r.mark = "in_progress" -> [r EXCEPT !.pc = "dispatch"]
      [] r.mark = "error" -> [r EXCEPT !.pc = "fail_write"]
      [] r.mark = "completed" ->
            IF allComplete(r.workflow)
            THEN [r EXCEPT !.pc = "complete_write"]
            ELSE Responded(r, Success(r.workflow, r.stepOutput))

\* logWorkflowProgress of lines 175, 211 and 229 and the code after it
LogProgress(p) ==
    /\ reqs[p].pc = "log"
    /\ LET r == reqs[p]
       IN  /\ logs' = LogInserted(LogRow(r.workflow.id, r.step, r.mark, ProgressMessage(r)))
           /\ reqs' = [reqs EXCEPT ![p] = AfterLog(r)]
    /\ UNCHANGED <<tempDirs, budget, workflows, clock, used>>

\* logWorkflowProgress when its insert returns an error (services/workflow.ts, lines
\* 233-235): the error is written to the console and the function returns
AfterLogFailure_Throws(r) ==
    IF r.mark = "completed"
    THEN [r EXCEPT !.message = "Failed to log progress", !.pc = "status_read",
                   !.mark = "error"]
    ELSE Responded(r, Reject("InternalError", 500, "Failed to log progress"))
AfterLogFailure(r) == AfterLog(r)

\* the insert of logWorkflowProgress fails: no row is added
LogProgressFails(p) ==
    /\ reqs[p].pc = "log"
    /\ used < budget
    /\ used' = used + 1
    /\ reqs' = [reqs EXCEPT ![p] =
            AfterLogFailure([reqs[p] EXCEPT !.hist.logsLost = @ + 1])]
    /\ UNCHANGED <<tempDirs, budget, workflows, logs, clock>>

\* lines 181-203: the switch calls executeStepN(workflow), which throws at once when
\* a field it needs is absent and otherwise starts its external work; executeStep2
\* first makes the temporary directory of the workflow (lines 387-388)
Dispatch(p) ==
    /\ reqs[p].pc = "dispatch"
    /\ LET r == [reqs[p] EXCEPT !.hist.dispatched = TRUE]
       IN  IF InputsMissing(r.workflow, r.step)
           THEN /\ reqs' = [reqs EXCEPT ![p] = Caught(r, InputsMissingMessage(r.step))]
                /\ tempDirs' = tempDirs
           ELSE IF r.step = 2
           THEN /\ reqs' = [reqs EXCEPT ![p] =
                        [r EXCEPT !.pc = "running", !.hist.tempDir = "made"]]
                /\ tempDirs' = tempDirs \cup {r.workflow.id}
           ELSE /\ reqs' = [reqs EXCEPT ![p] = [r EXCEPT !.pc = "running"]]
                /\ tempDirs' = tempDirs
    /\ UNCHANGED <<budget, workflows, logs, clock, used>>

\* how the external work of a collaborator ends: it returns a value or throws one
Returned(value) == [threw |-> FALSE, value |-> value]
Threw(value) == [threw |-> TRUE, value |-> value]

\* the finally block of executeStep2 (lines 414-421): the rm of the temporary
\* directory is awaited inside a try of its own, whose catch only warns, so the step
\* ends as its body ended whether the directory was removed or not
CleanupOutcome_RemovalFailureThrows(outcome, removed) ==
    IF removed THEN outcome ELSE Threw("Failed to remove temp directory")
CleanupOutcome(outcome, removed) == outcome

\* the temporary directories after the collaborator of r.step ended
TempDirsAfter(r, removed) ==
    IF r.step = 2 /\ removed THEN tempDirs \ {r.workflow.id} ELSE tempDirs

\* executeStepN ends.  executeStep2 runs its finally block first: `removed` tells
\* whether its rm succeeded.  executeStep1 writes videoPath and videoName before it
\* returns (lines 287-290, 313-317, 334-338, 368-371).  What is thrown goes to the
\* catch block of the route
CollaboratorEnds(p, outcome, removed) ==
    /\ reqs[p].pc = "running"
    /\ workflows[reqs[p].id].exists
    /\ LET r0 == reqs[p]
           r == IF r0.step = 2
                THEN [r0 EXCEPT !.hist.tempDir = IF removed THEN "removed" ELSE "kept"]
                ELSE r0
           final == IF r.step = 2 THEN CleanupOutcome(outcome, removed) ELSE outcome
           src == r.workflow.videoSource
       IN  /\ tempDirs' = TempDirsAfter(r, removed)
           /\ IF final.threw
              THEN /\ workflows' = workflows
                   /\ reqs' = [reqs EXCEPT ![p] = Caught(r, final.value)]
              ELSE IF r.step = 1
              THEN /\ workflows' = updateWorkflow(r.id,
                            [videoPath |-> ResolvedVideoPath(src),
                             videoName |-> ResolvedVideoName(src)])
                   /\ reqs' = [reqs EXCEPT ![p] =
                            [DidWrite(r) EXCEPT !.stepOutput = final.value,
                                                !.pc = "output_write"]]
              ELSE /\ workflows' = workflows
                   /\ reqs' = [reqs EXCEPT ![p] =
                            [r EXCEPT !.stepOutput = final.value, !.pc = "output_write"]]
    /\ UNCHANGED <<budget, logs, clock>>

\* the external work succeeded and executeStepN returns its output
CollaboratorReturns(p) ==
    /\ CollaboratorEnds(p, Returned(Payload(reqs[p].step)), TRUE)
    /\ used' = used

\* the external work failed: executeStepN throws and the catch block takes it
CollaboratorThrows(p) ==
    /\ used < budget
    /\ used' = used + 1
    /\ CollaboratorEnds(p, Threw(ExternalFailure), TRUE)

\* the external work of a forced run succeeded with an output that differs from the
\* one an earlier run of the step produced
CollaboratorReturnsAnew(p) ==
    /\ reqs[p].force
    /\ CollaboratorEnds(p, Returned(FreshPayload(reqs[p].step)), TRUE)
    /\ used' = used

\* executeStep2 ends, with its output or with a failure of its external work, and
\* the rm of its finally block fails
CleanupFails(p) ==
    /\ reqs[p].step = 2
    /\ used < budget
    /\ used' = used + 1
    /\ \E outcome \in {Returned(Payload(reqs[p].step)), Threw(ExternalFailure)} :
            CollaboratorEnds(p, outcome, FALSE)

\* the updates of lines 206-209: the step's output slot
OutputUpdates(step, stepOutput) ==
    LET outputKey == OutputKey(step)
    IN  [f \in {outputKey} |-> stepOutput]

\* lines 206-210: updateWorkflow stores the output and returns the row; then
\* updateStepStatus(completed) is called
OutputWrite(p) ==
    /\ reqs[p].pc = "output_write"
    /\ workflows[reqs[p].id].exists
    /\ LET r == DidWrite(reqs[p])
           table == updateWorkflow(r.id, OutputUpdates(r.step, r.stepOutput))
       IN  /\ workflows' = table
           /\ reqs' = [reqs EXCEPT ![p] =
                [r EXCEPT !.workflow = table[r.id], !.pc = "status_read",
                          !.mark = "completed"]]
    /\ UNCHANGED <<tempDirs, budget, logs, clock, used>>

\* completeWorkflow: the updates it writes
CompleteUpdates(wf, now) == [status |-> "completed", completedAt |-> Timestamp(now)]

\* line 218: completeWorkflow, then the success response of lines 221-225
CompleteWorkflow(p, now) ==
    /\ reqs[p].pc = "complete_write"
    /\ workflows[reqs[p].id].exists
    /\ LET r == DidWrite(reqs[p])
           table == updateWorkflow(r.id, CompleteUpdates(workflows[r.id], now))
       IN  /\ workflows' = table
           /\ reqs' = [reqs EXCEPT ![p] =
                Responded([r EXCEPT !.workflow = table[r.id]],
                          Success(table[r.id], r.stepOutput))]
    /\ clock' = now
    /\ UNCHANGED <<tempDirs, budget, logs, used>>

\* failWorkflow: the updates it writes
FailUpdates_NoMessage(errorMessage) == [status |-> "error"]
FailUpdates(errorMessage) == [status |-> "error", errorMessage |-> errorMessage]

\* line 230: failWorkflow, then the error response of lines 232-235
FailWorkflow(p) ==
    /\ reqs[p].pc = "fail_write"
    /\ workflows[reqs[p].id].exists
    /\ LET r == DidWrite(reqs[p])
       IN  /\ workflows' = updateWorkflow(r.id, FailUpdates(r.message))
           /\ reqs' = [reqs EXCEPT ![p] =
                Responded(r, ExecutionError(r.message))]
    /\ UNCHANGED <<tempDirs, budget, logs, clock, used>>

\* what updateWorkflow throws when the store reports an error
UpdateFailure == "Failed to update workflow: store error"

\* an updateWorkflow of the execute handler fails and throws: the catch block takes
\* what is thrown inside the try block (lines 180-225: the output write, the
\* completed mark, completeWorkflow); nothing takes what is thrown before it (the
\* in_progress mark) or inside the catch block itself (the error mark, failWorkflow)
UpdateWorkflowFails(p) ==
    /\ reqs[p].pc \in {"status_write", "output_write", "complete_write", "fail_write"}
    /\ used < budget
    /\ used' = used + 1
    /\ LET r == reqs[p]
           inTry == \/ r.pc \in {"output_write", "complete_write"}
                    \/ r.pc = "status_write" /\ r.mark = "completed"
       IN  reqs' = [reqs EXCEPT ![p] =
                IF inTry THEN Caught([r EXCEPT !.rmw = NoWorkflow], UpdateFailure)
                ELSE Unhandled([r EXCEPT !.rmw = NoWorkflow], UpdateFailure)]
    /\ UNCHANGED <<tempDirs, budget, workflows, logs, clock>>

(***************************************************************************)
(* GET /:id/steps/:step                                                    *)
(***************************************************************************)
\* getStepStatus of services/workflow.ts (the step's name is not modelled)
getStepStatus(wf, step) ==
    LET prereqCheck == canExecuteStep(wf, step)
    IN  [step |-> step,
         status |-> wf.stepStatuses[StepKey(step)],
         output |-> wf[OutputKey(step)],
         canExecute |-> prereqCheck.canExecute,
         missingPrerequisites |-> prereqCheck.missingPrerequisites]

\* lines 122-134: getWorkflow returns; 404, then the step-number validation
GetStepStatus(p, id, step) ==
    /\ reqs[p].pc = "idle"
    /\ LET r == DidRead(NewReq("getStepStatus", id, step, FALSE))
           wf == getWorkflow(id)
       IN  reqs' = [reqs EXCEPT ![p] =
                IF ~wf.exists
                THEN Responded(r, Reject("NotFound", 404, "Workflow not found"))
                ELSE IF InvalidStep(step)
                THEN Responded(r, Reject("InvalidStep", 400, "Invalid step number (1-7)"))
                ELSE Responded(r, Response("ok", 200, getStepStatus(wf, step)))]
    /\ UNCHANGED <<tempDirs, budget, workflows, logs, clock, used>>

(***************************************************************************)
(* POST /  (create)                                                        *)
(***************************************************************************)
\* line 53: whether the route rejects req.body.videoSource
SourceRejected(videoSource) == Falsy(videoSource) \/ videoSource.type # "string"

\* the video_source createWorkflow inserts: the route hands it videoSource.trim()
\* (line 59) and it trims once more
InsertedSource(videoSource) == Join(Trim(Trim(videoSource.text)))

\* lines 51-64 of the route and createWorkflow: validation, then the insert
CreateWorkflow(p, id, videoSource) ==
    /\ reqs[p].pc = "idle"
    /\ ~workflows[id].exists
    /\ LET r == [NewReq("create", id, 0, FALSE) EXCEPT !.videoSource = videoSource]
       IN  IF SourceRejected(videoSource)
           THEN /\ reqs' = [reqs EXCEPT ![p] =
                        Responded(r, Reject("ValidationError", 400, "videoSource is required"))]
                /\ workflows' = workflows
           ELSE LET row == InsertedRow(id, InsertedSource(videoSource))
                IN  /\ workflows' = [workflows EXCEPT ![id] = row]
                    /\ reqs' = [reqs EXCEPT ![p] =
                            Responded(DidWrite(r), Response("ok", 201, row))]
    /\ UNCHANGED <<tempDirs, budget, logs, clock, used>>

(***************************************************************************)
(* DELETE /:id                                                             *)
(***************************************************************************)
\* workflow_logs after the row of workflow `id` is deleted: the rows that refer to
\* it go with it (the deletion cascades)
CascadedLogs_KeepsLogs(id) == logs
CascadedLogs(id) ==
    LET Other(row) == row.workflowId # id
    IN  SelectSeq(logs, Other)

\* lines 98-101 of the route and deleteWorkflow: the row with this id is deleted,
\* then 204; deleting where no row matches is no error
DeleteWorkflow(p, id) ==
    /\ reqs[p].pc = "idle"
    /\ used < budget
    /\ used' = used + 1
    /\ workflows' = [workflows EXCEPT ![id] = NoWorkflow]
    /\ logs' = CascadedLogs(id)
    /\ reqs' = [reqs EXCEPT ![p] =
            Responded(DidWrite(NewReq("delete", id, 0, FALSE)),
                      Response("ok", 204, Null))]
    /\ UNCHANGED <<tempDirs, budget, clock>>

(***************************************************************************)
(* POST /:id/start and POST /:id/pause                                     *)
(***************************************************************************)
\* fromStep is << >> when the body carries none, <<k>> otherwise
\* startWorkflow, line 363: whether step statuses are reset
ResetsSteps_AcceptsZero(fromStep) ==
    fromStep # << >> /\ fromStep[1] >= 0 /\ fromStep[1] <= NumSteps
ResetsSteps(fromStep) == fromStep # << >> /\ fromStep[1] >= 1 /\ fromStep[1] <= NumSteps

\* startWorkflow, lines 352-370: the updates it writes for the row it read
StartUpdates_AlwaysStamps(wf, fromStep, now) ==
    LET base == [status |-> "in_progress", errorMessage |-> Null,
                 startedAt |-> Timestamp(now)]
        reset ==
            IF ResetsSteps(fromStep)
            THEN [stepStatuses |->
                    LET keys == {StepKey(i) : i \in fromStep[1]..NumSteps}
                    IN  [k \in DOMAIN wf.stepStatuses \cup keys |->
                            IF k \in keys THEN "pending" ELSE wf.stepStatuses[k]],
                  currentStep |-> fromStep[1]]
            ELSE << >>
    IN  [f \in DOMAIN base \cup DOMAIN reset |->
            IF f \in DOMAIN base THEN base[f] ELSE reset[f]]
StartUpdates_ResetsOneStep(wf, fromStep, now) ==
    LET base == [status |-> "in_progress", errorMessage |-> Null]
        started == IF wf.startedAt = Null THEN [startedAt |-> Timestamp(now)] ELSE << >>
        reset ==
            IF ResetsSteps(fromStep)
            THEN [stepStatuses |->
                    SetKey(wf.stepStatuses, StepKey(fromStep[1]), "pending"),
                  currentStep |-> fromStep[1]]
            ELSE << >>
    IN  [f \in DOMAIN base \cup DOMAIN started \cup DOMAIN reset |->
            IF f \in DOMAIN base THEN base[f]
            ELSE IF f \in DOMAIN started THEN started[f] ELSE reset[f]]
StartUpdates_SkipsEarlier(wf, fromStep, now) ==
    LET base == [status |-> "in_progress", errorMessage |-> Null]
        started == IF wf.startedAt = Null THEN [startedAt |-> Timestamp(now)] ELSE << >>
        reset ==
            IF ResetsSteps(fromStep)
            THEN [stepStatuses |->
                    LET keys == {StepKey(i) : i \in fromStep[1]..NumSteps}
                    IN  [k \in DOMAIN wf.stepStatuses \cup keys |->
                            IF k \in keys THEN "pending"
                            ELSE IF wf.stepStatuses[k] = "completed" THEN "completed"
                            ELSE "skipped"],
                  currentStep |-> fromStep[1]]
            ELSE << >>
    IN  [f \in DOMAIN base \cup DOMAIN started \cup DOMAIN reset |->
            IF f \in DOMAIN base THEN base[f]
            ELSE IF f \in DOMAIN started THEN started[f] ELSE reset[f]]
StartUpdates_SparesFromStep(wf, fromStep, now) ==
    LET base == [status |-> "in_progress", errorMessage |-> Null]
        started == IF wf.startedAt = Null THEN [startedAt |-> Timestamp(now)] ELSE << >>
        reset ==
            IF ResetsSteps(fromStep)
            THEN [stepStatuses |->
                    LET keys == {StepKey(i) : i \in (fromStep[1] + 1)..NumSteps}
                    IN  [k \in DOMAIN wf.stepStatuses \cup keys |->
                            IF k \in keys THEN "pending" ELSE wf.stepStatuses[k]],
                  currentStep |-> fromStep[1]]
            ELSE << >>
    IN  [f \in DOMAIN base \cup DOMAIN started \cup DOMAIN reset |->
            IF f \in DOMAIN base THEN base[f]
            ELSE IF f \in DOMAIN started THEN started[f] ELSE reset[f]]
StartUpdates(wf, fromStep, now) ==
    LET base == [status |-> "in_progress", errorMessage |-> Null]
        started == IF wf.startedAt = Null THEN [startedAt |-> Timestamp(now)] ELSE << >>
        reset ==
            IF ResetsSteps(fromStep)
            THEN [stepStatuses |->
                    LET keys == {StepKey(i) : i \in fromStep[1]..NumSteps}
                    IN  [k \in DOMAIN wf.stepStatuses \cup keys |->
                            IF k \in keys THEN "pending" ELSE wf.stepStatuses[k]],
                  currentStep |-> fromStep[1]]
            ELSE << >>
    IN  [f \in DOMAIN base \cup DOMAIN started \cup DOMAIN reset |->
            IF f \in DOMAIN base THEN base[f]
            ELSE IF f \in DOMAIN started THEN started[f] ELSE reset[f]]

\* POST /:id/start to startWorkflow's lines 347-350: getWorkflow returns
StartWorkflow(p, id, fromStep) ==
    /\ reqs[p].pc = "idle"
    /\ used < budget
    /\ used' = used + 1
    /\ LET r == DidRead([NewReq("start", id, 0, FALSE) EXCEPT !.fromStep = fromStep])
           wf == getWorkflow(id)
       IN  reqs' = [reqs EXCEPT ![p] =
                IF wf.exists THEN [r EXCEPT !.rmw = wf, !.pc = "start_write"]
                ELSE Unhandled(r, "Workflow not found")]
    /\ UNCHANGED <<tempDirs, budget, workflows, logs, clock>>

\* startWorkflow, line 372, and res.json(workflow)
StartWrite(p, now) ==
    /\ reqs[p].pc = "start_write"
    /\ workflows[reqs[p].id].exists
    /\ LET r == DidWrite(reqs[p])
           updates == StartUpdates(r.rmw, r.fromStep, now)
           table == updateWorkflow(r.id, updates)
       IN  /\ workflows' = table
           /\ reqs' = [reqs EXCEPT ![p] =
                Responded([r EXCEPT !.rmw = NoWorkflow], Response("ok", 200, table[r.id]))]
           /\ clock' = IF "startedAt" \in DOMAIN updates THEN now ELSE clock
    /\ UNCHANGED <<tempDirs, budget, logs, used>>

\* POST /:id/pause to pauseWorkflow's lines 377-380: getWorkflow returns
PauseWorkflow(p, id) ==
    /\ reqs[p].pc = "idle"
    /\ used < budget
    /\ used' = used + 1
    /\ LET r == DidRead(NewReq("pause", id, 0, FALSE))
           wf == getWorkflow(id)
       IN  reqs' = [reqs EXCEPT ![p] =
                IF wf.exists THEN [r EXCEPT !.pc = "pause_write"]
                ELSE Unhandled(r, "Workflow not found")]
    /\ UNCHANGED <<tempDirs, budget, workflows, logs, clock>>

\* pauseWorkflow, lines 382-384: the updates it writes
PauseUpdates_ResetsCurrentStep(wf) == [status |-> "paused", currentStep |-> DefaultCurrentStep]
PauseUpdates(wf) == [status |-> "paused"]

\* pauseWorkflow, lines 382-384, and res.json(workflow)
PauseWrite(p) ==
    /\ reqs[p].pc = "pause_write"
    /\ workflows[reqs[p].id].exists
    /\ LET r == DidWrite(reqs[p])
           table == updateWorkflow(r.id, PauseUpdates(workflows[r.id]))
       IN  /\ workflows' = table
           /\ reqs' = [reqs EXCEPT ![p] = Responded(r, Response("ok", 200, table[r.id]))]
    /\ UNCHANGED <<tempDirs, budget, logs, clock, used>>

(***************************************************************************)
(* The engine driven by one caller that waits for each response.           *)
(***************************************************************************)
Callers == {1}

Init ==
    /\ workflows = [id \in Ids |-> NoWorkflow]
    /\ logs = << >>
    /\ clock = 1
    /\ reqs = [p \in Procs |-> IdleReq]
    /\ used = 0
    /\ budget = MaxDeviations
    /\ tempDirs = {}

\* the requests a caller may send
Request(p) ==
    \/ \E id \in Ids, videoSource \in VideoSources :
            CreateWorkflow(p, id, String(<<videoSource>>))
    \/ \E id \in Ids, step \in StepInputs, force \in BOOLEAN :
            ExecuteStep(p, id, step, force)
    \/ \E id \in Ids, fromStep \in {<< >>} \cup {<<k>> : k \in StepInputs} :
            StartWorkflow(p, id, fromStep)
    \/ \E id \in Ids : PauseWorkflow(p, id)

\* one step of the execute handler running in slot p, short of the promotion of
\* the workflow
HandleStep(p) ==
    \/ UpdateStepStatusRead(p)
    \/ UpdateStepStatusWrite(p)
    \/ LogProgress(p)
    \/ Dispatch(p)
    \/ CollaboratorReturns(p)
    \/ CollaboratorThrows(p)
    \/ OutputWrite(p)
    \/ FailWorkflow(p)

\* one step of the execute handler running in slot p
HandleExecute(p) ==
    \/ HandleStep(p)
    \/ \E now \in Times : CompleteWorkflow(p, now)

\* one step of the handler running in slot p
Handle(p) ==
    \/ HandleExecute(p)
    \/ \E now \in Times : StartWrite(p, now)
    \/ PauseWrite(p)
    \/ Return(p)

Next ==
    \E p \in Callers :
        \/ Quiet /\ Request(p)
        \/ Handle(p)

Spec == Init /\ [][Next]_vars

(***************************************************************************)
(* The prerequisite checker and the read-only step query, applied to every *)
(* assignment of step statuses a stored row can carry.                     *)
(***************************************************************************)
\* canExecuteStep(workflow, step) applied to the stored row; the result is kept as
\* the response of the invocation
CanExecuteStep(p, id, step) ==
    /\ reqs[p].pc = "idle"
    /\ workflows[id].exists
    /\ reqs' = [reqs EXCEPT ![p] =
            Responded(NewReq("canExecuteStep", id, step, FALSE),
                      Response("result", 0, canExecuteStep(workflows[id], step)))]
    /\ UNCHANGED <<tempDirs, budget, workflows, logs, clock, used>>

\* a row with any step statuses, or no row at all
InitChecker ==
    /\ \E id \in Ids, videoSource \in VideoSources :
         \/ workflows = [i \in Ids |-> NoWorkflow]
         \/ \E statuses \in [StepKeys -> StepStatus] :
                workflows = [i \in Ids |->
                    IF i = id
                    THEN [InsertedRow(id, videoSource) EXCEPT !.stepStatuses = statuses]
                    ELSE NoWorkflow]
    /\ logs = << >>
    /\ clock = 1
    /\ reqs = [p \in Procs |-> IdleReq]
    /\ used = 0
    /\ budget = MaxDeviations
    /\ tempDirs = {}

NextChecker ==
    \E p \in Callers :
        \/ \E id \in Ids, step \in StepInputs : CanExecuteStep(p, id, step)
        \/ \E id \in Ids, step \in StepInputs : GetStepStatus(p, id, step)
        \/ Return(p)

SpecChecker == InitChecker /\ [][NextChecker]_vars

(***************************************************************************)
(* The engine driven by one caller that never sends force = true and may   *)
(* depart from the plain run once more often: histories with a second      *)
(* lifecycle request, or a lifecycle request after a failure.              *)
(***************************************************************************)
InitLifecycle ==
    /\ workflows = [id \in Ids |-> NoWorkflow]
    /\ logs = << >>
    /\ clock = 1
    /\ reqs = [p \in Procs |-> IdleReq]
    /\ used = 0
    /\ budget = MaxDeviations + 1
    /\ tempDirs = {}

RequestLifecycle(p) ==
    \/ \E id \in Ids, videoSource \in VideoSources :
            CreateWorkflow(p, id, String(<<videoSource>>))
    \/ \E id \in Ids, step \in Steps : ExecuteStep(p, id, step, FALSE)
    \/ \E id \in Ids, fromStep \in {<< >>} \cup {<<k>> : k \in StepInputs} :
            StartWorkflow(p, id, fromStep)
    \/ \E id \in Ids : PauseWorkflow(p, id)

NextLifecycle ==
    \E p \in Callers :
        \/ Quiet /\ RequestLifecycle(p)
        \/ Handle(p)

SpecLifecycle == InitLifecycle /\ [][NextLifecycle]_vars

(***************************************************************************)
(* The engine driven by one caller whose create requests carry any body:   *)
(* no videoSource, one that is not a string, any text.  The caller sends   *)
(* execute requests without force besides.                                 *)
(***************************************************************************)
CreateBodies == {Undefined, NotAString} \cup {String(text) : text \in Texts}

RequestCreate(p) ==
    \/ \E id \in Ids, videoSource \in CreateBodies : CreateWorkflow(p, id, videoSource)
    \/ \E id \in Ids, step \in Steps : ExecuteStep(p, id, step, FALSE)

NextCreate ==
    \E p \in Callers :
        \/ Quiet /\ RequestCreate(p)
        \/ HandleExecute(p)
        \/ Return(p)

SpecCreate == Init /\ [][NextCreate]_vars

(***************************************************************************)
(* The engine driven by one caller that sends create requests and execute  *)
(* requests without force, over a log store whose inserts may fail.  Two    *)
(* departures from the plain run let both log writes of one step fail, or  *)
(* a log write fail in a step whose collaborator fails.                    *)
(***************************************************************************)
InitFailures ==
    /\ workflows = [id \in Ids |-> NoWorkflow]
    /\ logs = << >>
    /\ clock = 1
    /\ reqs = [p \in Procs |-> IdleReq]
    /\ used = 0
    /\ budget = MaxDeviations + 1
    /\ tempDirs = {}

RequestPlain(p) ==
    \/ \E id \in Ids, videoSource \in VideoSources :
            CreateWorkflow(p, id, String(<<videoSource>>))
    \/ \E id \in Ids, step \in Steps : ExecuteStep(p, id, step, FALSE)

NextLogFailures ==
    \E p \in Callers :
        \/ Quiet /\ RequestPlain(p)
        \/ HandleExecute(p)
        \/ LogProgressFails(p)
        \/ Return(p)

SpecLogFailures == InitFailures /\ [][NextLogFailures]_vars

(***************************************************************************)
(* The engine holding up to two workflows, driven by one caller that sends *)
(* create, execute (without force) and delete requests.  A log insert may  *)
(* fail, so that the newest log entries can belong to different workflows. *)
(***************************************************************************)
TwoIds == {"w1", "w2"}

InitTwo ==
    /\ workflows = [id \in TwoIds |-> NoWorkflow]
    /\ logs = << >>
    /\ clock = 1
    /\ reqs = [p \in Procs |-> IdleReq]
    /\ used = 0
    /\ budget = MaxDeviations + 1
    /\ tempDirs = {}

RequestTwo(p) ==
    \/ \E id \in TwoIds, videoSource \in VideoSources :
            CreateWorkflow(p, id, String(<<videoSource>>))
    \/ \E id \in TwoIds, step \in 1..MaxStepTwo : ExecuteStep(p, id, step, FALSE)
    \/ \E id \in TwoIds : DeleteWorkflow(p, id)

NextTwo ==
    \E p \in Callers :
        \/ Quiet /\ RequestTwo(p)
        \/ HandleStep(p)
        \/ LogProgressFails(p)
        \/ Return(p)

SpecTwo == InitTwo /\ [][NextTwo]_vars

(***************************************************************************)
(* The engine driven by one caller that sends create requests and execute  *)
(* requests without force, over a store whose updates may fail.  Two       *)
(* departures from the plain run let an update fail in the handling of a   *)
(* collaborator's failure.                                                 *)
(***************************************************************************)
NextStoreFailures ==
    \E p \in Callers :
        \/ Quiet /\ RequestPlain(p)
        \/ HandleExecute(p)
        \/ UpdateWorkflowFails(p)
        \/ Return(p)

SpecStoreFailures == InitFailures /\ [][NextStoreFailures]_vars

(***************************************************************************)
(* The engine driven by one caller that sends create requests and execute  *)
(* requests without force, on a disk where the removal of a temporary      *)
(* directory may fail.                                                     *)
(***************************************************************************)
NextCleanup ==
    \E p \in Callers :
        \/ Quiet /\ RequestPlain(p)
        \/ HandleExecute(p)
        \/ CleanupFails(p)
        \/ Return(p)

SpecCleanup == Init /\ [][NextCleanup]_vars

(***************************************************************************)
(* The engine driven by one caller that sends create requests and execute  *)
(* requests with or without force, where the collaborator of a forced run  *)
(* may return an output that differs from the one stored.                  *)
(***************************************************************************)
RequestRerun(p) ==
    \/ \E id \in Ids, videoSource \in VideoSources :
            CreateWorkflow(p, id, String(<<videoSource>>))
    \/ \E id \in Ids, step \in Steps, force \in BOOLEAN : ExecuteStep(p, id, step, force)

NextRerun ==
    \E p \in Callers :
        \/ Quiet /\ RequestRerun(p)
        \/ HandleExecute(p)
        \/ CollaboratorReturnsAnew(p)
        \/ Return(p)

SpecRerun == Init /\ [][NextRerun]_vars

(***************************************************************************)
(* The same caller, with the progress of the handler stated.  Every step   *)
(* of the execute handler is the continuation of an awaited promise: a     *)
(* store call, which here succeeds, or the collaborator, which returns or  *)
(* throws.  The event loop runs the continuation once the promise settles, *)
(* so a handler step that stays possible is eventually taken.              *)
(***************************************************************************)
NextTermination ==
    \E p \in Callers :
        \/ Quiet /\ RequestRerun(p)
        \/ HandleExecute(p)
        \/ Return(p)

SpecTermination ==
    /\ Init
    /\ [][NextTermination]_vars
    /\ \A p \in Callers : WF_vars(HandleExecute(p))

(***************************************************************************)
(* The engine driven by two callers at once.  Each sends execute requests  *)
(* without force and waits for its own responses only, so two handlers can *)
(* be in flight and their steps interleave at every await.  The behaviours *)
(* start where the plain run stands after step 3, the first point at which *)
(* several steps pass the gate.                                            *)
(***************************************************************************)
\* the row after create and the successful execution of steps 1, 2 and 3
RowAfterStep3(id, videoSource) ==
    LET created == InsertedRow(id, videoSource)
        located == UpdatedRow(created, [videoPath |-> ResolvedVideoPath(videoSource),
                                        videoName |-> ResolvedVideoName(videoSource)])
        filled == UpdatedRow(located, [step1Output |-> Payload(1),
                                       step2Output |-> Payload(2),
                                       step3Output |-> Payload(3)])
    IN  UpdatedRow(filled,
            [stepStatuses |-> [k \in StepKeys |->
                                IF k \in {StepKey(1), StepKey(2), StepKey(3)}
                                THEN "completed" ELSE "pending"],
             currentStep |-> 3])

\* the log after it: the two entries of step 3
LogsAfterStep3(id) ==
    LastN(<<LogRow(id, 3, "in_progress", "Starting step 3"),
            LogRow(id, 3, "completed", "Step 3 completed")>>, MaxLog)

InitConcurrent ==
    /\ \E id \in Ids, videoSource \in VideoSources :
            /\ workflows = [i \in Ids |->
                    IF i = id THEN RowAfterStep3(id, videoSource) ELSE NoWorkflow]
            /\ logs = LogsAfterStep3(id)
    /\ clock = 1
    /\ reqs = [p \in Procs |-> IdleReq]
    /\ used = 0
    /\ budget = MaxDeviations
    /\ tempDirs = {}

\* the steps the two callers ask for
ConcurrentSteps == 4..(3 + MaxConcurrent)

NextConcurrent ==
    \E p \in Procs :
        \/ Quiet /\ \E id \in Ids, step \in ConcurrentSteps : ExecuteStep(p, id, step, FALSE)
        \/ \E id \in Ids, step \in ConcurrentSteps : ExecuteStepMeanwhile(p, id, step)
        \/ HandleStep(p)
        \/ Return(p)

SpecConcurrent == InitConcurrent /\ [][NextConcurrent]_vars

(***************************************************************************)
(* Properties of the prerequisite checker.                                 *)
(***************************************************************************)
\* the prerequisite graph as the specification states it
PrerequisitesOf(step) ==
    CASE step = 1 -> {}
      [] step = 2 -> {1}
      [] step = 3 -> {2}
      [] step = 4 -> {3}
      [] step = 5 -> {3}
      [] step = 6 -> {3, 4}
      [] step = 7 -> {3}

\* the prerequisites of `step` that are not completed in `wf`
NotCompleted(wf, step) ==
    {q \in PrerequisitesOf(step) : wf.stepStatuses[StepKey(q)] # "completed"}

\* slot p holds the result of an application of canExecuteStep to a step in 1..7
Applied(p) ==
    reqs[p].op = "canExecuteStep" /\ reqs[p].pc = "done" /\ reqs[p].step \in Steps

\* C1: for every assignment of the five step statuses to the seven steps and every
\* step s in 1..7, canExecuteStep(w, s).canExecute is true exactly when every
\* prerequisite of s has status completed
C1_CanExecuteIffPrerequisitesCompleted ==
    \A p \in Procs :
        Applied(p) =>
            (reqs[p].resp.body.canExecute
                <=> NotCompleted(workflows[reqs[p].id], reqs[p].step) = {})

\* step 6 may execute although steps outside its prerequisites are in error or skipped
C1_Witness ==
    \E p \in Procs :
        /\ Applied(p)
        /\ reqs[p].step = 6
        /\ reqs[p].resp.body.canExecute
        /\ workflows[reqs[p].id].stepStatuses["1"] = "error"
        /\ workflows[reqs[p].id].stepStatuses["5"] = "skipped"

\* C2: the missing list canExecuteStep returns holds exactly the prerequisites of s
\* whose status is not completed, in ascending order and without duplicates; a
\* skipped prerequisite is listed as missing
C2_MissingListsNotCompletedPrerequisites ==
    \A p \in Procs :
        Applied(p) =>
            LET missing == reqs[p].resp.body.missingPrerequisites
            IN  /\ \A i, j \in 1..Len(missing) : i < j => missing[i] < missing[j]
                /\ {missing[i] : i \in 1..Len(missing)}
                        = NotCompleted(workflows[reqs[p].id], reqs[p].step)

\* both prerequisites of step 6 are listed, one of them skipped
C2_Witness ==
    \E p \in Procs :
        /\ Applied(p)
        /\ reqs[p].step = 6
        /\ reqs[p].resp.body.missingPrerequisites = <<3, 4>>
        /\ workflows[reqs[p].id].stepStatuses["3"] = "skipped"
        /\ workflows[reqs[p].id].stepStatuses["4"] = "pending"

(***************************************************************************)
(* Properties of the execute route.                                        *)
(***************************************************************************)
\* slot p holds an invocation of the execute route
Executing(p) == reqs[p].op = "executeStep"

\* the row of the invocation's workflow as it was when the route was called
RowAtCall(p) == reqs[p].hist.workflows[reqs[p].id]

\* the invocation in slot p has left both tables as they were when it was called
NothingMutated(p) ==
    /\ workflows = reqs[p].hist.workflows
    /\ logs = reqs[p].hist.logs
    /\ reqs[p].hist.writes = 0

\* C3: executeStep with force = true for a step in 1..7 of an existing workflow is
\* never rejected with PrerequisiteError or AlreadyCompleted, whatever the step
\* statuses are: it marks the step in_progress and dispatches to the collaborator
C3_ForceBypassesBothGates ==
    \A p \in Procs :
        (/\ Executing(p)
         /\ reqs[p].force
         /\ reqs[p].step \in Steps
         /\ RowAtCall(p).exists) =>
            LET r == reqs[p]
                wf == workflows[r.id]
            IN  /\ r.resp.kind \notin {"PrerequisiteError", "AlreadyCompleted"}
                /\ r.pc = "dispatch" =>
                        /\ wf.stepStatuses[StepKey(r.step)] = "in_progress"
                        /\ wf.currentStep = r.step
                /\ r.hist.dispatched => r.hist.writes >= 1
                /\ r.pc = "done" => r.hist.dispatched

\* a forced execution of step 5 succeeded although its prerequisite, step 3, was
\* not completed
C3_Witness ==
    \E p \in Procs :
        /\ Executing(p)
        /\ reqs[p].force
        /\ reqs[p].step = 5
        /\ reqs[p].pc = "done"
        /\ reqs[p].resp.kind = "ok"
        /\ reqs[p].hist.dispatched
        /\ RowAtCall(p).stepStatuses["3"] # "completed"

\* C4: executeStep without force for a step with a prerequisite that is not
\* completed is rejected with PrerequisiteError carrying exactly the missing
\* prerequisites; the record (statuses, outputs, status, currentStep, errorMessage)
\* and the log are as before the call and no collaborator is invoked
C4_MissingPrerequisiteRejects ==
    \A p \in Procs :
        (/\ Executing(p)
         /\ ~reqs[p].force
         /\ reqs[p].step \in Steps
         /\ RowAtCall(p).exists
         /\ NotCompleted(RowAtCall(p), reqs[p].step) # {}) =>
            /\ reqs[p].pc = "done"
            /\ reqs[p].resp.kind = "PrerequisiteError"
            /\ LET missing == reqs[p].resp.body.missingPrerequisites
               IN  /\ \A i, j \in 1..Len(missing) : i < j => missing[i] < missing[j]
                   /\ {missing[i] : i \in 1..Len(missing)}
                            = NotCompleted(RowAtCall(p), reqs[p].step)
            /\ NothingMutated(p)
            /\ ~reqs[p].hist.dispatched

\* step 6 is rejected after steps 1 to 3 have run: step 4 is missing
C4_Witness ==
    \E p \in Procs :
        /\ Executing(p)
        /\ ~reqs[p].force
        /\ reqs[p].step = 6
        /\ reqs[p].resp.kind = "PrerequisiteError"
        /\ reqs[p].resp.body.missingPrerequisites = <<4>>
        /\ RowAtCall(p).stepStatuses["3"] = "completed"

\* C5: executeStep without force for a step that is completed and whose
\* prerequisites are all completed is rejected with AlreadyCompleted; no
\* collaborator is invoked, the record and the log are unchanged
C5_CompletedStepRejects ==
    \A p \in Procs :
        (/\ Executing(p)
         /\ ~reqs[p].force
         /\ reqs[p].step \in Steps
         /\ RowAtCall(p).exists
         /\ NotCompleted(RowAtCall(p), reqs[p].step) = {}
         /\ RowAtCall(p).stepStatuses[StepKey(reqs[p].step)] = "completed") =>
            /\ reqs[p].pc = "done"
            /\ reqs[p].resp.kind = "AlreadyCompleted"
            /\ NothingMutated(p)
            /\ ~reqs[p].hist.dispatched

\* step 3 is asked for again after it completed
C5_Witness ==
    \E p \in Procs :
        /\ Executing(p)
        /\ ~reqs[p].force
        /\ reqs[p].step = 3
        /\ reqs[p].resp.kind = "AlreadyCompleted"
        /\ RowAtCall(p).stepStatuses["3"] = "completed"

\* C6: executeStep with a step number outside 1..7 is rejected with InvalidStep
\* before any read or write of the store, whether or not the workflow exists and
\* whatever force is
C6_InvalidStepBeforeStore ==
    \A p \in Procs :
        (Executing(p) /\ reqs[p].step \notin Steps) =>
            /\ reqs[p].pc = "done"
            /\ reqs[p].resp.kind = "InvalidStep"
            /\ reqs[p].hist.reads = 0
            /\ NothingMutated(p)
            /\ ~reqs[p].hist.dispatched

\* step 8 with force = true for an id that has no workflow
C6_Witness ==
    \E p \in Procs :
        /\ Executing(p)
        /\ reqs[p].step = NumSteps + 1
        /\ reqs[p].force
        /\ ~RowAtCall(p).exists
        /\ reqs[p].resp.kind = "InvalidStep"

\* C7: getStepStatus with a step number outside 1..7 is rejected with InvalidStep
\* before any read of the store, for every workflow id, also one that has no
\* workflow
C7_QueryInvalidStepBeforeStore ==
    \A p \in Procs :
        (reqs[p].op = "getStepStatus" /\ reqs[p].step \notin Steps) =>
            /\ reqs[p].resp.kind = "InvalidStep"
            /\ reqs[p].hist.reads = 0

\* the step and status of each row of a log
StepsAndStatuses(rows) == [i \in 1..Len(rows) |-> <<rows[i].step, rows[i].status>>]

\* the log holds what it held when the invocation in slot p was called, followed
\* by one row for each of `statuses`, all for the invocation's step
LogGrewBy(p, statuses) ==
    StepsAndStatuses(logs) =
        LastN(StepsAndStatuses(reqs[p].hist.logs)
                \o [i \in 1..Len(statuses) |-> <<reqs[p].step, statuses[i]>>], MaxLog)

\* C8: when the collaborator of step s succeeds, its output is stored in the output
\* slot of s, step s is completed, a completed log entry for s is appended, and the
\* workflow status is completed exactly when all seven statuses are completed or
\* skipped after that update; otherwise the workflow status is as it was
C8_SuccessStoresOutputAndPromotes ==
    \A p \in Procs :
        (Executing(p) /\ reqs[p].pc = "done" /\ reqs[p].resp.kind = "ok") =>
            LET r == reqs[p]
                wf == workflows[r.id]
                allDone == \A s \in Steps :
                              wf.stepStatuses[StepKey(s)] \in {"completed", "skipped"}
            IN  /\ r.hist.dispatched
                /\ wf[OutputKey(r.step)] = r.resp.body.stepOutput
                /\ wf[OutputKey(r.step)] # Null
                /\ wf.stepStatuses[StepKey(r.step)] = "completed"
                /\ LogGrewBy(p, <<"in_progress", "completed">>)
                /\ wf.status = IF allDone THEN "completed" ELSE RowAtCall(p).status

\* the execution that completes the last open step promotes the workflow
C8_Witness ==
    \E p \in Procs :
        /\ Executing(p)
        /\ reqs[p].pc = "done"
        /\ reqs[p].resp.kind = "ok"
        /\ RowAtCall(p).status = "created"
        /\ workflows[reqs[p].id].status = "completed"
        /\ workflows[reqs[p].id].completedAt # Null

\* C9: once executeStep has succeeded for all seven steps the workflow is completed
\* and completedAt is assigned exactly once over the whole history: no later
\* operation, a forced re-run that succeeds again included, assigns it again
C9_CompletedAtAssignedOnce ==
    [][\A id \in Ids :
          (workflows[id].exists /\ workflows[id].completedAt # Null) =>
              workflows'[id].completedAt = workflows[id].completedAt]_vars

\* C10: when the collaborator of step s fails, step s is in error, the workflow
\* status is error, errorMessage is the failure message and not null, and exactly
\* one error log entry for s is appended by the call
C10_FailureRecordsError ==
    \A p \in Procs :
        (Executing(p) /\ reqs[p].pc = "done" /\ reqs[p].resp.kind = "ExecutionError") =>
            LET r == reqs[p]
                wf == workflows[r.id]
            IN  /\ r.hist.dispatched
                /\ wf.stepStatuses[StepKey(r.step)] = "error"
                /\ wf.status = "error"
                /\ wf.errorMessage # Null
                /\ wf.errorMessage = r.resp.body.error
                /\ wf.errorMessage = r.message
                /\ LogGrewBy(p, <<"in_progress", "error">>)
                /\ logs[Len(logs)].message = r.message

\* the external service of step 3 failed on a workflow that had no error so far
C10_Witness ==
    \E p \in Procs :
        /\ Executing(p)
        /\ reqs[p].pc = "done"
        /\ reqs[p].step = 3
        /\ reqs[p].resp.kind = "ExecutionError"
        /\ reqs[p].resp.body.error = ExternalFailure
        /\ RowAtCall(p).errorMessage = Null
        /\ workflows[reqs[p].id].errorMessage = ExternalFailure

\* the fields of a workflow row a failed execution may change
FailureFields == {"stepStatuses", "status", "errorMessage", "currentStep"}

Stored == {workflows[id] : id \in {i \in Ids : workflows[i].exists}}

\* C12: in every persisted state, the states between the store writes of one
\* operation included, the output slot of a step is non-null only if the status
\* of the step is completed
C12_OutputOnlyIfCompleted ==
    \A wf \in Stored :
        \A n \in Steps :
            wf[OutputKey(n)] # Null => wf.stepStatuses[StepKey(n)] = "completed"

\* C13: in every persisted state, workflow status completed implies that every
\* one of the seven step statuses is completed or skipped
C13_CompletedImpliesAllStepsDone ==
    \A wf \in Stored :
        wf.status = "completed" =>
            \A n \in Steps : wf.stepStatuses[StepKey(n)] \in {"completed", "skipped"}

\* C14: in every persisted state, workflow status error implies that errorMessage
\* is set and that at least one step has status error
C14_ErrorImpliesMessageAndErrorStep ==
    \A wf \in Stored :
        wf.status = "error" =>
            /\ wf.errorMessage # Null
            /\ \E n \in Steps : wf.stepStatuses[StepKey(n)] = "error"

Answered(p, op) ==
    reqs[p].op = op /\ reqs[p].pc = "done" /\ reqs[p].resp.kind = "ok"

\* C16: for every k in 1..7, start(id, fromStep = k) sets the statuses of steps
\* k..7 to pending and currentStep to k, and leaves the statuses of steps 1..k-1
\* and all seven output slots as they were
C16_StartFromStepResetsTail ==
    \A p \in Procs :
        (/\ Answered(p, "start")
         /\ reqs[p].fromStep # << >>
         /\ reqs[p].fromStep[1] \in 1..7) =>
            LET k == reqs[p].fromStep[1]
                wf == workflows[reqs[p].id]
                before == RowAtCall(p)
            IN  /\ \A n \in k..7 : wf.stepStatuses[StepKey(n)] = "pending"
                /\ wf.currentStep = k
                /\ \A n \in 1..(k - 1) :
                        wf.stepStatuses[StepKey(n)] = before.stepStatuses[StepKey(n)]
                /\ \A n \in 1..7 : wf[OutputKey(n)] = before[OutputKey(n)]

\* start(fromStep = 3) after steps 1 to 4 had completed
C16_Witness ==
    \E p \in Procs :
        /\ Answered(p, "start")
        /\ reqs[p].fromStep = <<3>>
        /\ RowAtCall(p).stepStatuses["4"] = "completed"
        /\ workflows[reqs[p].id].stepStatuses["2"] = "completed"
        /\ workflows[reqs[p].id].stepStatuses["3"] = "pending"
        /\ workflows[reqs[p].id].stepStatuses["4"] = "pending"
        /\ workflows[reqs[p].id].step4Output # Null
        /\ workflows[reqs[p].id].currentStep = 3

\* C17: start(id) sets the workflow status to in_progress from any prior status,
\* and startedAt is assigned by the first start only: once it is non-null no later
\* start and no other operation changes it
C17_StartSetsInProgressAndStampsOnce ==
    /\ [](\A p \in Procs :
            Answered(p, "start") =>
                /\ workflows[reqs[p].id].status = "in_progress"
                /\ workflows[reqs[p].id].startedAt # Null
                /\ RowAtCall(p).startedAt # Null =>
                        workflows[reqs[p].id].startedAt = RowAtCall(p).startedAt)
    /\ [][\A id \in Ids :
            (workflows[id].exists /\ workflows[id].startedAt # Null) =>
                workflows'[id].startedAt = workflows[id].startedAt]_vars

\* a second start, at a later time, of a workflow that was started and has completed
C17_Witness ==
    \E p \in Procs :
        /\ Answered(p, "start")
        /\ RowAtCall(p).status = "completed"
        /\ RowAtCall(p).startedAt = Timestamp(1)
        /\ RowAtCall(p).completedAt = Timestamp(2)
        /\ workflows[reqs[p].id].status = "in_progress"
        /\ workflows[reqs[p].id].startedAt = Timestamp(1)

\* C18: pause(id) sets the workflow status to paused and leaves all step statuses,
\* all outputs, currentStep and errorMessage unchanged
C18_PauseChangesStatusOnly ==
    \A p \in Procs :
        Answered(p, "pause") =>
            LET wf == workflows[reqs[p].id]
                before == RowAtCall(p)
            IN  /\ wf.status = "paused"
                /\ wf.stepStatuses = before.stepStatuses
                /\ \A n \in Steps : wf[OutputKey(n)] = before[OutputKey(n)]
                /\ wf.currentStep = before.currentStep
                /\ wf.errorMessage = before.errorMessage

\* a workflow whose step 3 failed after steps 1 and 2 completed is paused
C18_Witness ==
    \E p \in Procs :
        /\ Answered(p, "pause")
        /\ RowAtCall(p).status = "error"
        /\ RowAtCall(p).currentStep = 3
        /\ workflows[reqs[p].id].status = "paused"
        /\ workflows[reqs[p].id].errorMessage = ExternalFailure
        /\ workflows[reqs[p].id].currentStep = 3
        /\ workflows[reqs[p].id].stepStatuses["3"] = "error"
        /\ workflows[reqs[p].id].step2Output # Null

\* C19: complete(id) is idempotent: a second call on a workflow that is already
\* completed leaves the record, status and completedAt included, as it was after
\* the first call
C19_CompleteIsIdempotent ==
    [][\A p \in Procs :
          (/\ reqs[p].pc = "complete_write"
           /\ reqs'[p].pc = "done"
           /\ workflows[reqs[p].id].status = "completed") =>
                workflows'[reqs[p].id] = workflows[reqs[p].id]]_vars

\* C20: every workflow create returns has status created, all seven step statuses
\* pending, all seven output slots null, and errorMessage, startedAt and
\* completedAt null
C20_CreatedWorkflowIsBlank ==
    \A p \in Procs :
        Answered(p, "create") =>
            LET wf == reqs[p].resp.body
            IN  /\ wf.status = "created"
                /\ \A n \in 1..7 : wf.stepStatuses[StepKey(n)] = "pending"
                /\ \A n \in 1..7 : wf[OutputKey(n)] = Null
                /\ wf.errorMessage = Null
                /\ wf.startedAt = Null
                /\ wf.completedAt = Null

\* create has answered 201 and the row it returned is the stored one
C20_Witness ==
    \E p \in Procs :
        /\ Answered(p, "create")
        /\ reqs[p].resp.code = 201
        /\ reqs[p].resp.body = workflows[reqs[p].id]
        /\ reqs[p].resp.body.videoSource \in VideoSources

(***************************************************************************)
(* Validation of the create request.                                       *)
(***************************************************************************)
\* a videoSource that is missing, empty or made of whitespace only
BlankSource(videoSource) ==
    \/ videoSource.type = "undefined"
    \/ /\ videoSource.type = "string"
       /\ \A i \in DOMAIN videoSource.text : videoSource.text[i] = Blank

\* C21: a create request whose videoSource is missing, empty or blank is answered
\* with ValidationError and stores no workflow, and no stored workflow has an empty
\* videoSource
C21_BlankSourceRejected ==
    /\ \A p \in Procs :
            (reqs[p].op = "create" /\ reqs[p].pc = "done" /\ BlankSource(reqs[p].videoSource))
                => /\ reqs[p].resp.kind = "ValidationError"
                   /\ workflows = reqs[p].hist.workflows
    /\ \A id \in Ids : workflows[id].exists => workflows[id].videoSource # ""

(***************************************************************************)
(* Failures of the progress log.                                           *)
(***************************************************************************)
\* the outcome of a finished execute request as the record and the response show it
OutcomeConsistent(p) ==
    LET r == reqs[p]
        row == workflows[r.id]
    IN  /\ r.resp.kind # "InternalError"
        /\ r.resp.kind = "ok" =>
                /\ r.stepOutput # Null
                /\ r.resp.body.stepOutput = r.stepOutput
                /\ r.resp.body.workflow = row
                /\ row.stepStatuses[StepKey(r.step)] = "completed"
                /\ row[OutputKey(r.step)] = r.stepOutput
                /\ row.status = IF allComplete(row) THEN "completed"
                                ELSE RowAtCall(p).status
        /\ r.resp.kind = "ExecutionError" =>
                /\ r.message # Null
                /\ r.resp.body.error = r.message
                /\ row.stepStatuses[StepKey(r.step)] = "error"
                /\ row[OutputKey(r.step)] = RowAtCall(p)[OutputKey(r.step)]
                /\ row.status = "error"
                /\ row.errorMessage = r.message

\* C22: whichever of its progress-log writes fail, an execute request ends as it
\* ends when they all succeed: at each log write the handler goes on from the same
\* position with the same locals and the record untouched, and the step status, the
\* output, the workflow status and the response are those of the collaborator's
\* outcome
C22_LogFailureKeepsOutcome ==
    /\ [](\A p \in Procs : (Executing(p) /\ reqs[p].hist.writes > 0) => OutcomeConsistent(p))
    /\ [][\A p \in Procs :
            (reqs[p].pc = "log" /\ reqs'[p] # reqs[p])
                => /\ workflows' = workflows
                   /\ [reqs'[p] EXCEPT !.hist = reqs[p].hist] = AfterLog(reqs[p])]_vars

\* an execute request succeeded although both of its log writes failed
C22_Witness ==
    \E p \in Procs :
        /\ Executing(p)
        /\ reqs[p].resp.kind = "ok"
        /\ reqs[p].hist.logsLost = 2
        /\ logs = reqs[p].hist.logs
        /\ workflows[reqs[p].id].stepStatuses[StepKey(reqs[p].step)] = "completed"

\* C23: the progress log is append-only: a step that changes the log adds one entry
\* at its end and leaves every entry it held in place and unchanged (the model keeps
\* the newest MaxLog entries, so the oldest one leaves the window when it is full)
C23_LogAppendOnly ==
    [][logs' # logs =>
            /\ logs' # << >>
            /\ logs' = LastN(Append(logs, logs'[Len(logs')]), MaxLog)
            /\ \A i \in DOMAIN logs :
                    i + Len(logs') - 1 - Len(logs) \in DOMAIN logs'
                        => logs'[i + Len(logs') - 1 - Len(logs)] = logs[i]]_vars

\* the completed entry of a step stands behind the in_progress entry of that step
C23_Witness ==
    /\ Len(logs) >= 2
    /\ logs[Len(logs)].status = "completed"
    /\ logs[Len(logs) - 1].status = "in_progress"
    /\ logs[Len(logs)].step = logs[Len(logs) - 1].step

(***************************************************************************)
(* Deletion.                                                               *)
(***************************************************************************)
\* the log entries of workflow `id` in a log table
LogsOf(table, id) ==
    LET Mine(row) == row.workflowId = id
    IN  SelectSeq(table, Mine)

\* C24: when delete(id) has returned, the store holds neither the workflow `id` nor
\* a log entry of it, and every other workflow and its log entries are as they were
C24_DeleteRemovesWorkflowAndLogs ==
    \A p \in Procs :
        Answered(p, "delete") =>
            /\ ~workflows[reqs[p].id].exists
            /\ LogsOf(logs, reqs[p].id) = << >>
            /\ \A other \in DOMAIN workflows \ {reqs[p].id} :
                    /\ workflows[other] = reqs[p].hist.workflows[other]
                    /\ LogsOf(logs, other) = LogsOf(reqs[p].hist.logs, other)

\* a workflow that had log entries was deleted while another workflow with log
\* entries was stored
C24_Witness ==
    \E p \in Procs :
        /\ Answered(p, "delete")
        /\ reqs[p].hist.workflows[reqs[p].id].exists
        /\ LogsOf(reqs[p].hist.logs, reqs[p].id) # << >>
        /\ \E other \in DOMAIN workflows \ {reqs[p].id} :
                /\ workflows[other].exists
                /\ LogsOf(logs, other) # << >>

(***************************************************************************)
(* Concurrent execute requests.                                            *)
(***************************************************************************)
\* the initial state of SpecConcurrent is a state of the sequential engine
ReachesRowAfterStep3 ==
    \E id \in Ids, videoSource \in VideoSources :
        /\ workflows[id] = RowAfterStep3(id, videoSource)
        /\ logs = LogsAfterStep3(id)
        /\ Quiet

\* the status the store holds for the step of the invocation in slot p
StoredStatus(p) == workflows[reqs[p].id].stepStatuses[StepKey(reqs[p].step)]

\* C25: updateStepStatus writes back the whole status map it read, with one entry
\* changed and no regard for what the store holds by then: the entries of the other
\* steps are stored as they were read, so that the write of a concurrent execute
\* request made since the read is overwritten
C25_StatusWriteStoresMapRead ==
    [][\A p \in Procs :
        (reqs[p].pc = "status_write" /\ reqs'[p].pc = "log")
            => /\ workflows'[reqs[p].id].stepStatuses =
                    SetKey(reqs[p].rmw.stepStatuses, StepKey(reqs[p].step), reqs[p].mark)
               /\ \A k \in DOMAIN reqs[p].rmw.stepStatuses \ {StepKey(reqs[p].step)} :
                    workflows'[reqs[p].id].stepStatuses[k] = reqs[p].rmw.stepStatuses[k]]_vars

\* a lost update: two execute requests for different steps of one workflow are in
\* flight, and the step of one, whose in_progress mark was written and whose
\* collaborator is running, is stored as pending again
C25_Witness ==
    \E p, q \in Procs :
        /\ p # q
        /\ Executing(p) /\ Executing(q)
        /\ reqs[p].id = reqs[q].id
        /\ reqs[p].step # reqs[q].step
        /\ reqs[p].pc = "running"
        /\ reqs[p].hist.writes = 1
        /\ StoredStatus(p) = "pending"
        /\ StoredStatus(q) = "in_progress"

(***************************************************************************)
(* Failures of the store inside the error handling.                        *)
(***************************************************************************)
\* C26: when the collaborator of an execute request failed, the error the caller is
\* given is the collaborator's message, also when a store write of the error
\* handling failed
C26_CleanupFailureKeepsOriginalError ==
    \A p \in Procs :
        (Executing(p) /\ reqs[p].pc = "done" /\ reqs[p].hist.dispatched
                /\ reqs[p].message # Null)
            => reqs[p].resp.body.error = reqs[p].message

(***************************************************************************)
(* The prerequisite checker on a step without definition.                  *)
(***************************************************************************)
\* C27: for a step number outside 1..7, which has no definition, canExecuteStep
\* returns canExecute = false and an empty missing list, whatever the step statuses
\* of the workflow are
C27_UndefinedStepNotExecutable ==
    \A p \in Procs :
        (reqs[p].op = "canExecuteStep" /\ reqs[p].pc = "done" /\ reqs[p].step \notin Steps)
            => reqs[p].resp.body = [canExecute |-> FALSE, missingPrerequisites |-> << >>]

\* step 8 is not executable in a workflow all of whose steps are completed
C27_Witness ==
    \E p \in Procs :
        /\ reqs[p].op = "canExecuteStep" /\ reqs[p].pc = "done"
        /\ reqs[p].step = NumSteps + 1
        /\ ~reqs[p].resp.body.canExecute
        /\ reqs[p].resp.body.missingPrerequisites = << >>
        /\ \A k \in StepKeys : workflows[reqs[p].id].stepStatuses[k] = "completed"

(***************************************************************************)
(* The order of the effects of one execute request.                        *)
(***************************************************************************)
\* the newest log entry is the in_progress entry of the invocation in slot p
LastLogIsStart(p) ==
    /\ logs # << >>
    /\ logs[Len(logs)] =
            LogRow(reqs[p].id, reqs[p].step, "in_progress",
                   "Starting step " \o ToString(reqs[p].step))

\* a step of the handler in slot p that writes the in_progress mark of its step
MarksInProgress(p, id) ==
    /\ reqs[p].id = id
    /\ reqs[p].pc = "status_write" /\ reqs[p].mark = "in_progress"
    /\ reqs'[p].pc = "log"

\* a step of the handler in slot p that writes the reset of start(fromStep)
StartsFromStep(p, id) ==
    /\ reqs[p].id = id
    /\ reqs[p].pc = "start_write" /\ ResetsSteps(reqs[p].fromStep)
    /\ reqs'[p].pc = "done"

\* C28: when the collaborator of an accepted execute request for step s is invoked,
\* s is stored as in_progress, currentStep is s and the in_progress log entry is the
\* newest one; the completed or error entry of the execution follows its in_progress
\* entry; and currentStep changes only where a step is marked in_progress, to that
\* step, or where start(fromStep) resets it
C28_InProgressPersistedBeforeCollaborator ==
    /\ [](\A p \in Procs :
            /\ (Executing(p) /\ reqs[p].pc \in {"dispatch", "running"}) =>
                    /\ StoredStatus(p) = "in_progress"
                    /\ workflows[reqs[p].id].currentStep = reqs[p].step
                    /\ LastLogIsStart(p)
            /\ (Executing(p) /\ reqs[p].pc = "done" /\ reqs[p].resp.kind = "ok") =>
                    LogGrewBy(p, <<"in_progress", "completed">>)
            /\ (Executing(p) /\ reqs[p].pc = "done"
                    /\ reqs[p].resp.kind = "ExecutionError") =>
                    LogGrewBy(p, <<"in_progress", "error">>))
    /\ [][\A id \in Ids :
            (workflows[id].exists /\ workflows'[id].exists) =>
                IF \E p \in Procs : MarksInProgress(p, id)
                THEN \A p \in Procs :
                        MarksInProgress(p, id) => workflows'[id].currentStep = reqs[p].step
                ELSE IF \E p \in Procs : StartsFromStep(p, id)
                THEN TRUE
                ELSE workflows'[id].currentStep = workflows[id].currentStep]_vars

\* the collaborator of step 3 is running: the step is stored as in_progress, it is
\* the current step and its in_progress entry is the newest log entry
C28_Witness ==
    \E p \in Procs :
        /\ Executing(p)
        /\ reqs[p].pc = "running"
        /\ reqs[p].step = 3
        /\ StoredStatus(p) = "in_progress"
        /\ workflows[reqs[p].id].currentStep = 3
        /\ LastLogIsStart(p)

(***************************************************************************)
(* Atomicity of the two halves of an execute request.                      *)
(***************************************************************************)
\* the handler in slot p is between its load of the workflow and its in_progress
\* write
BeforeCollaborator(p) ==
    /\ Executing(p)
    /\ reqs[p].pc \in {"status_read", "status_write"}
    /\ reqs[p].mark = "in_progress"

\* the handler in slot p is between its output write and its completed write
AfterCollaborator(p) ==
    /\ Executing(p)
    /\ reqs[p].pc \in {"status_read", "status_write"}
    /\ reqs[p].mark = "completed"

\* C29: no other request takes effect inside either half of an execute request: from
\* the load to the in_progress write the stored record is the one that was loaded,
\* and from the output write to the completed write it is the one the output write
\* returned
C29_HalvesAreAtomic ==
    \A p \in Procs :
        /\ BeforeCollaborator(p) => workflows[reqs[p].id] = RowAtCall(p)
        /\ AfterCollaborator(p) => workflows[reqs[p].id] = reqs[p].workflow

(***************************************************************************)
(* The temporary directory of step 2.                                      *)
(***************************************************************************)
\* C30: once executeStep2 has made the temporary directory of the workflow, the
\* removal of the directory is attempted before executeStep2 returns or throws,
\* whether its external work succeeded or failed; the directory is gone when the
\* removal succeeded; and the request ends with the output or the error of the
\* external work also when the removal failed
C30_TempDirRemovedOnEveryPath ==
    \A p \in Procs :
        (Executing(p) /\ reqs[p].step = 2) =>
            /\ reqs[p].hist.tempDir = "made" => reqs[p].pc = "running"
            /\ reqs[p].pc = "running" => reqs[p].hist.tempDir = "made"
            /\ reqs[p].hist.tempDir = "removed" => reqs[p].id \notin tempDirs
            /\ (reqs[p].hist.tempDir \in {"removed", "kept"} /\ reqs[p].pc = "done") =>
                    \/ /\ reqs[p].resp.kind = "ok"
                       /\ reqs[p].resp.body.stepOutput = Payload(2)
                       /\ reqs[p].message = Null
                    \/ /\ reqs[p].resp.kind = "ExecutionError"
                       /\ reqs[p].resp.body.error = ExternalFailure
                       /\ reqs[p].stepOutput = Null

\* step 2 succeeded although the removal of its temporary directory failed
C30_Witness ==
    \E p \in Procs :
        /\ Executing(p) /\ reqs[p].step = 2 /\ reqs[p].pc = "done"
        /\ reqs[p].hist.tempDir = "kept"
        /\ reqs[p].id \in tempDirs
        /\ reqs[p].resp.kind = "ok"
        /\ reqs[p].resp.body.stepOutput = Payload(2)

(***************************************************************************)
(* The statuses the operations write.                                      *)
(***************************************************************************)
\* C31: from an empty store, create, execute (with or without force, succeeding or
\* failing), start and pause never store a step as skipped: every stored step status
\* is pending, in_progress, completed or error
C31_SkippedNeverWritten ==
    \A id \in Ids :
        workflows[id].exists =>
            \A k \in DOMAIN workflows[id].stepStatuses :
                workflows[id].stepStatuses[k] \in {"pending", "in_progress", "completed", "error"}

\* a forced execution of a step whose prerequisite never ran has failed: the step is
\* stored as error, its prerequisite as pending still
C31_Witness ==
    \E p \in Procs :
        /\ Executing(p) /\ reqs[p].force /\ reqs[p].pc = "done"
        /\ reqs[p].resp.kind = "ExecutionError"
        /\ reqs[p].step = 2
        /\ StoredStatus(p) = "error"
        /\ workflows[reqs[p].id].stepStatuses[StepKey(1)] = "pending"

(***************************************************************************)
(* Forced re-execution.                                                    *)
(***************************************************************************)
\* the invocation in slot p is a finished forced execution of a step that was
\* completed when the route was called, and it succeeded
RerunSucceeded(p) ==
    /\ Executing(p) /\ reqs[p].force /\ reqs[p].pc = "done"
    /\ ~InvalidStep(reqs[p].step)
    /\ RowAtCall(p).exists
    /\ RowAtCall(p).stepStatuses[StepKey(reqs[p].step)] = "completed"
    /\ reqs[p].resp.kind = "ok"

\* C32: a forced execution of a completed step invokes the collaborator again and,
\* when it succeeds, the output slot of the step holds the new output, the step is
\* completed, and the output slots of the other steps are as they were
C32_ForcedRerunReplacesOutput ==
    \A p \in Procs :
        /\ (Executing(p) /\ reqs[p].force /\ reqs[p].pc = "done" /\ RowAtCall(p).exists
                /\ ~InvalidStep(reqs[p].step))
                => reqs[p].hist.dispatched
        /\ RerunSucceeded(p) =>
                /\ workflows[reqs[p].id][OutputKey(reqs[p].step)] = reqs[p].stepOutput
                /\ reqs[p].resp.body.stepOutput = reqs[p].stepOutput
                /\ StoredStatus(p) = "completed"
                /\ \A other \in Steps \ {reqs[p].step} :
                        workflows[reqs[p].id][OutputKey(other)] = RowAtCall(p)[OutputKey(other)]

\* the forced run stored an output that differs from the one the slot held
C32_Witness ==
    \E p \in Procs :
        /\ RerunSucceeded(p)
        /\ RowAtCall(p)[OutputKey(reqs[p].step)] = Payload(reqs[p].step)
        /\ workflows[reqs[p].id][OutputKey(reqs[p].step)] = FreshPayload(reqs[p].step)
        /\ \E other \in Steps \ {reqs[p].step} : RowAtCall(p)[OutputKey(other)] # Null

(***************************************************************************)
(* Retrying a failed step.                                                 *)
(***************************************************************************)
\* the execute request in slot p has passed the gates
Accepted(p) == Executing(p) /\ reqs[p].mark # Null

\* C33: the collaborator of a request is invoked once at most, and never after the
\* request has caught a failure, so a failed step runs again only through a new
\* request; and a request without force for a step stored as error whose
\* prerequisites are completed is accepted
C33_FailedStepRunsAgainOnRequestOnly ==
    /\ [][\A p \in Procs :
            (reqs'[p].pc \in {"dispatch", "running"} /\ reqs'[p].pc # reqs[p].pc)
                => /\ reqs[p].message = Null
                   /\ ~reqs[p].hist.dispatched
                   /\ reqs[p].pc \in {"log", "dispatch"}]_vars
    /\ [](\A p \in Procs :
            (Executing(p) /\ ~reqs[p].force /\ RowAtCall(p).exists
                /\ ~InvalidStep(reqs[p].step)
                /\ RowAtCall(p).stepStatuses[StepKey(reqs[p].step)] = "error"
                /\ NotCompleted(RowAtCall(p), reqs[p].step) = {})
                => Accepted(p))

\* a request without force ran a step again that was stored as error, and succeeded
C33_Witness ==
    \E p \in Procs :
        /\ Executing(p) /\ ~reqs[p].force /\ reqs[p].pc = "done"
        /\ reqs[p].step = 2
        /\ RowAtCall(p).exists
        /\ RowAtCall(p).stepStatuses[StepKey(reqs[p].step)] = "error"
        /\ reqs[p].hist.dispatched
        /\ reqs[p].resp.kind = "ok"

(***************************************************************************)
(* What the gate of the execute route depends on.                          *)
(***************************************************************************)
\* the row `wf` with another workflow status
WithStatus(wf, status) == [wf EXCEPT !.status = status]

\* C34: the decision of the execute route on a stored workflow is the decision it
\* takes on the workflow that differs from it in its workflow status only: the
\* request is accepted for both, or rejected for both with the same response
C34_GateIgnoresWorkflowStatus ==
    \A p \in Procs :
        (Executing(p) /\ ~InvalidStep(reqs[p].step) /\ RowAtCall(p).exists) =>
            \A status \in WorkflowStatus :
                LET decision == ExecuteGate(WithStatus(RowAtCall(p), status),
                                            reqs[p].step, reqs[p].force)
                IN  IF decision = NoResponse
                    THEN Accepted(p)
                    ELSE ~Accepted(p) /\ reqs[p].resp = decision

\* a step of a paused workflow was executed
C34_Witness ==
    \E p \in Procs :
        /\ Executing(p) /\ reqs[p].pc = "done"
        /\ ~InvalidStep(reqs[p].step)
        /\ RowAtCall(p).exists
        /\ RowAtCall(p).status = "paused"
        /\ reqs[p].resp.kind = "ok"
        /\ StoredStatus(p) = "completed"

(***************************************************************************)
(* Completed steps and their prerequisites.                                *)
(***************************************************************************)
\* C35: in the histories of one caller that sends create, execute without force,
\* start and pause, every stored step that is completed has all its prerequisites
\* completed
C35_CompletedImpliesPrerequisitesCompleted ==
    \A id \in Ids :
        workflows[id].exists =>
            \A step \in Steps :
                workflows[id].stepStatuses[StepKey(step)] = "completed"
                    => NotCompleted(workflows[id], step) = {}

\* start(fromStep) was answered for a workflow whose completed steps reached beyond
\* fromStep: the steps before fromStep are completed, none from fromStep on is
C35_Witness ==
    \E p \in Procs :
        /\ Answered(p, "start")
        /\ reqs[p].fromStep = <<3>>
        /\ reqs[p].hist.workflows[reqs[p].id].stepStatuses[StepKey(4)] = "completed"
        /\ workflows[reqs[p].id].stepStatuses[StepKey(2)] = "completed"
        /\ \A i \in 3..NumSteps : workflows[reqs[p].id].stepStatuses[StepKey(i)] = "pending"

(***************************************************************************)
(* Step outputs under concurrent execute requests.                         *)
(***************************************************************************)
\* the request in slot p has stored the output of its step
OutputStored(p) ==
    /\ Executing(p)
    /\ ~InvalidStep(reqs[p].step)
    /\ reqs[p].mark = "completed"

\* C36: under every interleaving of execute requests for the same workflow no stored
\* step output is lost: an output slot changes only in the output write of a request
\* for that step, and the output a request stored stays in the row whatever the
\* other request writes
C36_NoStepOutputLost ==
    /\ [](\A p \in Procs :
            OutputStored(p) =>
                workflows[reqs[p].id][OutputKey(reqs[p].step)] = reqs[p].stepOutput)
    /\ [][\A id \in Ids, step \in Steps :
            (workflows[id].exists /\ workflows'[id][OutputKey(step)] # workflows[id][OutputKey(step)])
                => \E p \in Procs :
                        /\ reqs[p].pc = "output_write"
                        /\ reqs[p].id = id
                        /\ reqs[p].step = step
                        /\ workflows'[id][OutputKey(step)] = reqs[p].stepOutput]_vars

\* two requests for different steps overlapped: one has been answered with success
\* and its output is stored although the other's status write dropped its
\* completed entry
C36_Witness ==
    \E p \in Procs, q \in Procs :
        /\ OutputStored(p)
        /\ reqs[p].pc = "done"
        /\ reqs[p].resp.kind = "ok"
        /\ Executing(q)
        /\ reqs[q].id = reqs[p].id
        /\ reqs[q].step # reqs[p].step
        /\ reqs[q].pc \notin {"idle", "done"}
        /\ StoredStatus(p) # "completed"
        /\ workflows[reqs[p].id][OutputKey(reqs[p].step)] = Payload(reqs[p].step)

(***************************************************************************)
(* Collaborator invocations in flight.                                     *)
(***************************************************************************)
\* the collaborator of the request in slot p is running
InFlight(p) == Executing(p) /\ reqs[p].pc = "running"

\* C37: when every request is sent without force, at most one collaborator
\* invocation is in flight for a workflow and a step
C37_OneInvocationInFlight ==
    \A p \in Procs, q \in Procs :
        (/\ p # q
         /\ InFlight(p) /\ InFlight(q)
         /\ ~reqs[p].force /\ ~reqs[q].force
         /\ reqs[p].id = reqs[q].id)
            => reqs[p].step # reqs[q].step

(***************************************************************************)
(* What an execute request does to the status of the workflow.             *)
(***************************************************************************)
\* C38: a step of an execute handler changes the status of the workflow only to
\* completed, in the promotion after the last step, or to error, after a failure;
\* an execution answered with success that did not complete the workflow leaves
\* the status as it was when the request arrived
C38_ExecuteChangesStatusOnlyToCompletedOrError ==
    /\ [](\A p \in Procs :
            (/\ Executing(p)
             /\ reqs[p].pc = "done"
             /\ reqs[p].resp.kind = "ok"
             /\ ~allComplete(reqs[p].resp.body.workflow))
                => workflows[reqs[p].id].status = RowAtCall(p).status)
    /\ [][\A p \in Procs :
            (/\ Executing(p)
             /\ reqs[p].pc \notin {"idle", "done"}
             /\ workflows[reqs[p].id].exists
             /\ workflows'[reqs[p].id].status # workflows[reqs[p].id].status)
                => \/ /\ reqs[p].pc = "complete_write"
                      /\ workflows'[reqs[p].id].status = "completed"
                   \/ /\ reqs[p].pc = "fail_write"
                      /\ workflows'[reqs[p].id].status = "error"]_vars

\* a step succeeded in a workflow whose status was error, without completing it:
\* the status is still error
C38_Witness ==
    \E p \in Procs :
        /\ Executing(p)
        /\ reqs[p].pc = "done"
        /\ reqs[p].resp.kind = "ok"
        /\ reqs[p].hist.dispatched
        /\ RowAtCall(p).status = "error"
        /\ workflows[reqs[p].id].status = "error"
        /\ workflows[reqs[p].id].stepStatuses[StepKey(reqs[p].step)] = "completed"

(***************************************************************************)
(* Forced execution of a step whose inputs are absent.                     *)
(***************************************************************************)
\* the inputs each step requires, as the specification lists them
RequiredInputs(step) ==
    CASE step = 2 -> {"videoPath"}
      [] step = 3 -> {"step2Output"}
      [] step = 4 -> {"step3Output", "videoPath", "videoName"}
      [] step = 5 -> {"step2Output", "videoName"}
      [] step = 6 -> {"step3Output", "step4Output", "videoName"}
      [] step = 7 -> {"step3Output", "videoName"}
      [] OTHER -> {}

\* a forced execute request for a step of which a required input was absent when
\* the request arrived
ForcedWithoutInputs(p) ==
    /\ Executing(p)
    /\ reqs[p].force
    /\ ~InvalidStep(reqs[p].step)
    /\ RowAtCall(p).exists
    /\ \E f \in RequiredInputs(reqs[p].step) : RowAtCall(p)[f] = Null

\* C39: a forced execute request for a step with an absent required input passes
\* the gates and fails before its external work starts: the collaborator never
\* runs and no temporary directory is made, and the request ends with the error of
\* the input check, the step in error and the workflow in error with that message
C39_ForcedWithoutInputsFailsEarly ==
    \A p \in Procs :
        ForcedWithoutInputs(p) =>
            /\ Accepted(p)
            /\ reqs[p].pc # "running"
            /\ reqs[p].hist.tempDir = "none"
            /\ reqs[p].pc = "done" =>
                    /\ reqs[p].resp = ExecutionError(InputsMissingMessage(reqs[p].step))
                    /\ StoredStatus(p) = "error"
                    /\ workflows[reqs[p].id].status = "error"
                    /\ workflows[reqs[p].id].errorMessage = InputsMissingMessage(reqs[p].step)
                    /\ workflows[reqs[p].id][OutputKey(reqs[p].step)]
                            = RowAtCall(p)[OutputKey(reqs[p].step)]

\* step 6 was forced after steps 1 to 3 had run, with the output of step 4 absent,
\* and has been answered
C39_Witness ==
    \E p \in Procs :
        /\ ForcedWithoutInputs(p)
        /\ reqs[p].step = 6
        /\ RowAtCall(p).step3Output # Null
        /\ RowAtCall(p).videoName # Null
        /\ RowAtCall(p).step4Output = Null
        /\ reqs[p].pc = "done"
        /\ workflows[reqs[p].id].status = "error"

(***************************************************************************)
(* Termination of an accepted execute request.                             *)
(***************************************************************************)
\* the handler of an accepted execute request is running in slot p
Underway(p) == Accepted(p) /\ reqs[p].pc \notin {"idle", "done"}

\* the accepted execute request in slot p has been answered
Finished(p) == Accepted(p) /\ reqs[p].pc = "done"

\* C40: when the collaborator returns or throws, the store writes succeed and no
\* other request touches the workflow, every accepted execute request is eventually
\* answered, and when it is answered its step is completed or in error, never
\* in_progress
C40_AcceptedExecuteFinishes ==
    /\ \A p \in Callers :
            Underway(p) ~> (Finished(p) /\ StoredStatus(p) \in {"completed", "error"})
    /\ [](\A p \in Callers :
            Finished(p) =>
                /\ StoredStatus(p) \in {"completed", "error"}
                /\ StoredStatus(p) = "completed" <=> reqs[p].resp.kind = "ok")

\* an accepted request whose collaborator threw has been answered: its step is in
\* error
C40_Witness ==
    \E p \in Callers :
        /\ Finished(p)
        /\ reqs[p].hist.dispatched
        /\ reqs[p].resp = ExecutionError(ExternalFailure)
        /\ StoredStatus(p) = "error"
        /\ RowAtCall(p).stepStatuses[StepKey(reqs[p].step)] = "pending"
====
